---------------------------- MODULE Spec2Model ----------------------------
(***************************************************************************)
(* Model of the passive-radar processing chain.                            *)
(*                                                                         *)
(*   Tracker  (src/src/tracker.py): constant-velocity Kalman filter per    *)
(*            track, global assignment, spawn and prune.                   *)
(*   cfar_2d  (src/passive_radar/detect/cfar.py): 2-D CA-CFAR detector.    *)
(*                                                                         *)
(* Floating point values are modelled as exact rationals <<num, den>>.     *)
(***************************************************************************)
EXTENDS Integers, Sequences, FiniteSets, TLC

VARIABLES
    tracker,    \* the Tracker object: its parameters, _next_id and the track table
    cells,      \* the (range, doppler) cells detections are drawn from
    scipy_tie,  \* which minimal assignment the installed scipy returns on a tie
    epoch,      \* time.time() returns epoch + k during the k-th call
    calls,      \* number of Tracker.update calls made so far
    outcome,    \* of the last call: "none", "returned" or "LinAlgError"
    call,       \* the last call: its inputs, the object before it, its locals
    born,       \* the ids of all tracks created so far, in creation order
    twin,       \* a second Tracker object with a clock of its own
    stamps,     \* whether the caller passes timestamps
    cfar,       \* a call of cfar_2d: its arguments and, once made, its result
    server,     \* a RealtimeRadarServer: its run() coroutine, clients and sends
    reader,     \* a UDPReader: its socket and what read_stream has yielded
    source,     \* a read_iq_file generator: the file and what it has yielded
    dsp,        \* a call of one array function: its arguments and its result
    disk        \* the output directory of saver.py

vars == <<tracker, cells, scipy_tie, epoch, calls, outcome, call, born, twin, stamps,
          cfar, server, reader, source, dsp, disk>>

\* the variables of the tracker and those of the other components
tracking == <<tracker, cells, scipy_tie, epoch, calls, outcome, call, born, twin, stamps>>
chain == <<server, reader, source, dsp, disk>>

(***************************************************************************)
(* Exact rational arithmetic (the model of Python/numpy floats).           *)
(***************************************************************************)
Abs(x) == IF x < 0 THEN -x ELSE x

RECURSIVE GCD(_, _)
GCD(a, b) == IF b = 0 THEN a ELSE GCD(b, a % b)

\* n/d in lowest terms with a positive denominator (d # 0)
Rat(n, d) ==
    IF n = 0 THEN <<0, 1>>
    ELSE LET g == GCD(Abs(n), Abs(d))
             s == IF d < 0 THEN -1 ELSE 1
         IN  <<(s * n) \div g, (s * d) \div g>>

R0 == <<0, 1>>
R1 == <<1, 1>>
RInt(i) == <<i, 1>>

RNeg(x) == <<-x[1], x[2]>>

RAdd(x, y) ==
    IF x[1] = 0 THEN y
    ELSE IF y[1] = 0 THEN x
    ELSE LET g == GCD(x[2], y[2])
         IN  Rat(x[1] * (y[2] \div g) + y[1] * (x[2] \div g), x[2] * (y[2] \div g))

RSub(x, y) == RAdd(x, RNeg(y))

RMul(x, y) ==
    IF x[1] = 0 \/ y[1] = 0 THEN R0
    ELSE IF x = R1 THEN y
    ELSE IF y = R1 THEN x
    ELSE LET g1 == GCD(Abs(x[1]), y[2])
             g2 == GCD(Abs(y[1]), x[2])
         IN  <<(x[1] \div g1) * (y[1] \div g2), (x[2] \div g2) * (y[2] \div g1)>>

\* 1/x, x # 0
RInv(x) == IF x[1] < 0 THEN <<-x[2], -x[1]>> ELSE <<x[2], x[1]>>

RDiv(x, y) == RMul(x, RInv(y))

RLt(x, y) ==
    IF x[2] = y[2] THEN x[1] < y[1] ELSE x[1] * y[2] < y[1] * x[2]

RLe(x, y) == ~RLt(y, x)

RAbs(x) == <<Abs(x[1]), x[2]>>

(***************************************************************************)
(* Vectors and matrices are tuples (of rows) of rationals.                 *)
(***************************************************************************)
\* u + c * v for 4-vectors
Axpy4(u, c, v) ==
    <<RAdd(u[1], RMul(c, v[1])), RAdd(u[2], RMul(c, v[2])),
      RAdd(u[3], RMul(c, v[3])), RAdd(u[4], RMul(c, v[4]))>>

Row4Add(u, v) ==
    <<RAdd(u[1], v[1]), RAdd(u[2], v[2]), RAdd(u[3], v[3]), RAdd(u[4], v[4])>>

\* A + B for 4x4 matrices
Mat4Add(A, B) ==
    <<Row4Add(A[1], B[1]), Row4Add(A[2], B[2]), Row4Add(A[3], B[3]), Row4Add(A[4], B[4])>>

\* A.T for a 4x4 matrix
Mat4T(A) ==
    << <<A[1][1], A[2][1], A[3][1], A[4][1]>>, <<A[1][2], A[2][2], A[3][2], A[4][2]>>,
       <<A[1][3], A[2][3], A[3][3], A[4][3]>>, <<A[1][4], A[2][4], A[3][4], A[4][4]>> >>

\* np.diag([a, b, c, d])
Diag4(a, b, c, d) ==
    << <<RInt(a), R0, R0, R0>>, <<R0, RInt(b), R0, R0>>,
       <<R0, R0, RInt(c), R0>>, <<R0, R0, R0, RInt(d)>> >>

\* np.linalg.inv (LAPACK gesv: elimination with a non-zero pivot) raises
\* LinAlgError exactly when no non-zero pivot is left
Singular(S) ==
    IF S[1][1] # R0
    THEN RSub(S[2][2], RMul(RDiv(S[2][1], S[1][1]), S[1][2])) = R0
    ELSE S[2][1] = R0 \/ S[1][2] = R0

\* np.linalg.inv of a non-singular 2x2 matrix
Inv2(S) ==
    IF S[1][1] # R0
    THEN LET l == RDiv(S[2][1], S[1][1])
             u22 == RSub(S[2][2], RMul(l, S[1][2]))
             x22 == RInv(u22)
             x21 == RNeg(RMul(l, x22))
             x12 == RNeg(RMul(RDiv(S[1][2], S[1][1]), x22))
             x11 == RDiv(RSub(R1, RMul(S[1][2], x21)), S[1][1])
         IN  << <<x11, x12>>, <<x21, x22>> >>
    ELSE << <<RNeg(RDiv(S[2][2], RMul(S[1][2], S[2][1]))), RInv(S[2][1])>>,
            <<RInv(S[1][2]), R0>> >>

\* a function with all its values computed
Eager(f) == f @@ <<>>

(***************************************************************************)
(* Tracker: src/src/tracker.py                                             *)
(***************************************************************************)
\* the cost the code writes over a gated-out entry, and tests kept pairs against
GATED == 1000000

\* Track(id, state, P, last_update); history defaults to [], missed to 0
Track(id, state, P, last_update) ==
    [id |-> id, state |-> state, P |-> P, last_update |-> last_update,
     history |-> <<>>, missed |-> 0]

\* Tracker.__init__; dt, process_var, meas_var, dist_threshold are rationals.
\* H = [[1,0,0,0],[0,1,0,0]] selects the first two components of a state and
\* R = np.eye(2) * meas_var; both enter the operators below in that form.
Tracker(dt, process_var, meas_var, dist_threshold, max_missed) ==
    [dt |-> dt, process_var |-> process_var, meas_var |-> meas_var,
     dist_threshold |-> dist_threshold, max_missed |-> max_missed,
     next_id |-> 1,
     tracks |-> <<>>]

\* F @ M for the F of Tracker._build_F_Q: [[1,0,dt,0],[0,1,0,dt],[0,0,1,0],[0,0,0,1]]
MulF(M, dt) == <<Axpy4(M[1], dt, M[3]), Axpy4(M[2], dt, M[4]), M[3], M[4]>>

\* the Q of Tracker._build_F_Q
BuildQ(dt, q) ==
    LET d3 == RMul(RDiv(RMul(dt, RMul(dt, dt)), RInt(3)), q)
        d2 == RMul(RDiv(RMul(dt, dt), RInt(2)), q)
        d1 == RMul(dt, q)
    IN  << <<d3, R0, d2, R0>>, <<R0, d3, R0, d2>>,
           <<d2, R0, d1, R0>>, <<R0, d2, R0, d1>> >>

\* Track.predict: state = F @ state, P = F @ P @ F.T + Q, missed += 1
TrackPredict(t, dt, Q) ==
    [t EXCEPT !.state = <<RAdd(t.state[1], RMul(dt, t.state[3])),
                          RAdd(t.state[2], RMul(dt, t.state[4])),
                          t.state[3], t.state[4]>>,
              !.P = Mat4Add(Mat4T(MulF(Mat4T(MulF(t.P, dt)), dt)), Q),
              !.missed = t.missed + 1]

\* Tracker.predict_all
PredictAll(tracks, dt, q) ==
    LET Q == BuildQ(dt, q)
    IN  Eager([tid \in DOMAIN tracks |-> TrackPredict(tracks[tid], dt, Q)])

\* the innovation covariance of Track.update: S = H @ P @ H.T + R
InnovationCov(t, meas_var) ==
    << <<RAdd(t.P[1][1], meas_var), t.P[1][2]>>,
       <<t.P[2][1], RAdd(t.P[2][2], meas_var)>> >>

\* Track.update raises numpy.linalg.LinAlgError when S is singular
TrackUpdateRaises(t, meas_var) == Singular(InnovationCov(t, meas_var))

\* row i of P @ H.T @ X
GainRow(Pi, X) ==
    <<RAdd(RMul(Pi[1], X[1][1]), RMul(Pi[2], X[2][1])),
      RAdd(RMul(Pi[1], X[1][2]), RMul(Pi[2], X[2][2]))>>

\* the Kalman gain K = P @ H.T @ np.linalg.inv(S), X being the inverse
Gain(P, X) == <<GainRow(P[1], X), GainRow(P[2], X), GainRow(P[3], X), GainRow(P[4], X)>>

\* variant: the covariance is left as predicted
PosteriorRowPredicted(Pi, Ki, P) == Pi

\* row i of (I - K @ H) @ P
PosteriorRow(Pi, Ki, P) == Axpy4(Axpy4(Pi, RNeg(Ki[1]), P[1]), RNeg(Ki[2]), P[2])

\* component i of state + K @ y
StateRow(si, Ki, y) == RAdd(si, RAdd(RMul(Ki[1], y[1]), RMul(Ki[2], y[2])))

\* variant: the correction without the reset of missed
CorrectOnly(t, y, K) ==
    [t EXCEPT !.state = <<StateRow(t.state[1], K[1], y), StateRow(t.state[2], K[2], y),
                          StateRow(t.state[3], K[3], y), StateRow(t.state[4], K[4], y)>>,
              !.P = <<PosteriorRow(t.P[1], K[1], t.P), PosteriorRow(t.P[2], K[2], t.P),
                      PosteriorRow(t.P[3], K[3], t.P), PosteriorRow(t.P[4], K[4], t.P)>>]

\* the assignments of Track.update once y and K are known
Correct(t, y, K) ==
    [t EXCEPT !.state = <<StateRow(t.state[1], K[1], y), StateRow(t.state[2], K[2], y),
                          StateRow(t.state[3], K[3], y), StateRow(t.state[4], K[4], y)>>,
              !.P = <<PosteriorRow(t.P[1], K[1], t.P), PosteriorRow(t.P[2], K[2], t.P),
                      PosteriorRow(t.P[3], K[3], t.P), PosteriorRow(t.P[4], K[4], t.P)>>,
              !.missed = 0]

\* variant: the clock reading enters the velocity estimate
StampVelocity(t, wall) ==
    [t EXCEPT !.last_update = wall,
              !.state = <<t.state[1], t.state[2], RInt(wall), t.state[4]>>,
              !.history = Append(t.history, <<wall, t.state[1], t.state[2]>>)]

\* last_update = time.time(); history.append((last_update, state[0], state[1]))
Stamp(t, wall) ==
    [t EXCEPT !.last_update = wall,
              !.history = Append(t.history, <<wall, t.state[1], t.state[2]>>)]

\* Track.update for a non-singular S; wall is the value time.time() returns
TrackUpdate(t, meas, meas_var, wall) ==
    Stamp(Correct(t, <<RSub(meas[1], t.state[1]), RSub(meas[2], t.state[2])>>,
                  Gain(t.P, Inv2(InnovationCov(t, meas_var)))),
          wall)

\* np.linalg.norm of a 2-vector; the inputs of the model are collinear with an
\* axis, so that the norm is rational
Norm2(v) ==
    CASE v[2] = R0 -> RAbs(v[1])
      [] v[1] = R0 -> RAbs(v[2])

\* Tracker._gate_cost_matrix: preds and dets are sequences of 2-vectors
GateCostMatrix(preds, dets) ==
    Eager([i \in 1..Len(preds) |-> Eager([j \in 1..Len(dets) |->
        Norm2(<<RSub(preds[i][1], dets[j][1]), RSub(preds[i][2], dets[j][2])>>)])])

\* gated_cost[gated_cost > dist_threshold] = 1e6
GatedCost(cost, dist_threshold) ==
    Eager([i \in DOMAIN cost |-> Eager([j \in DOMAIN cost[i] |->
        IF RLt(dist_threshold, cost[i][j]) THEN RInt(GATED) ELSE cost[i][j]])])

(***************************************************************************)
(* scipy.optimize.linear_sum_assignment(cost) for an n x m matrix.  Its    *)
(* contract: min(n, m) pairs, no row and no column used twice, the total   *)
(* cost minimal, rows returned in ascending order.  Which of several       *)
(* minimal assignments it returns is not specified and differs between     *)
(* scipy releases; it is a fixed function of the installed release, which  *)
(* the model draws once (scipy_tie) and never changes.                           *)
(***************************************************************************)
RECURSIVE SumCost(_, _)
SumCost(cost, pairs) ==
    IF pairs = {} THEN R0
    ELSE LET p == CHOOSE q \in pairs : TRUE
         IN  RAdd(cost[p[1]][p[2]], SumCost(cost, pairs \ {p}))

\* every complete one-to-one assignment, as a set of <<row, col>> pairs
Assignments(n, m) ==
    IF n <= m
    THEN {{<<i, f[i]>> : i \in 1..n} :
            f \in {g \in [1..n -> 1..m] : \A a, b \in 1..n : a # b => g[a] # g[b]}}
    ELSE {{<<f[j], j>> : j \in 1..m} :
            f \in {g \in [1..m -> 1..n] : \A a, b \in 1..m : a # b => g[a] # g[b]}}

OptimalAssignments(cost, n, m) ==
    LET all == Assignments(n, m)
        totals == {SumCost(cost, a) : a \in all}
        best == CHOOSE t \in totals : \A u \in totals : RLe(t, u)
    IN  {a \in all : SumCost(cost, a) = best}

\* the pairs of an assignment in ascending row order, as scipy returns them
RECURSIVE ByRow(_)
ByRow(pairs) ==
    IF pairs = {} THEN <<>>
    ELSE LET p == CHOOSE q \in pairs : \A o \in pairs : q[1] <= o[1]
         IN  <<p>> \o ByRow(pairs \ {p})

\* position of an assignment in the lexicographic order of its (row, col) list
RECURSIVE LexCode(_, _, _)
LexCode(seq, n, m) ==
    IF seq = <<>> THEN 0
    ELSE LexCode(SubSeq(seq, 1, Len(seq) - 1), n, m) * ((n + 1) * (m + 1))
         + seq[Len(seq)][1] * (m + 1) + seq[Len(seq)][2]

LinearSumAssignment(cost, n, m, tie) ==
    LET opt == OptimalAssignments(cost, n, m)
        pick == IF tie = "first"
                THEN CHOOSE a \in opt : \A b \in opt :
                        LexCode(ByRow(a), n, m) <= LexCode(ByRow(b), n, m)
                ELSE CHOOSE a \in opt : \A b \in opt :
                        LexCode(ByRow(a), n, m) >= LexCode(ByRow(b), n, m)
    IN  ByRow(pick)

(***************************************************************************)
(* Tracker.update.  The call is a chain of steps over the call's frame c:  *)
(* the object (self), the arguments, and the locals assigned so far.       *)
(***************************************************************************)
\* list(self.tracks.keys()): a dict keeps insertion order, and tracks are
\* inserted in the order of their ids
RECURSIVE SortedIds(_)
SortedIds(S) ==
    IF S = {} THEN <<>>
    ELSE LET lo == CHOOSE x \in S : \A y \in S : x <= y
         IN  <<lo>> \o SortedIds(S \ {lo})

\* Python's None, for the optional timestamp
None == <<>>

\* entry: timestamp = time.time() if None
Enter(self, detections, timestamp, wall, tie) ==
    [self |-> self, detections |-> detections, wall |-> wall, tie |-> tie,
     timestamp |-> IF timestamp = None THEN wall ELSE timestamp[1]]

\* Step 1: predict_all, then track_ids, preds and dets
PredictStep(c) ==
    LET track_ids == SortedIds(DOMAIN c.self.tracks)
    IN  [predicted |-> PredictAll(c.self.tracks, c.self.dt, c.self.process_var),
         track_ids |-> track_ids,
         dets |-> Eager([j \in 1..Len(c.detections) |->
                     <<RInt(c.detections[j][1]), RInt(c.detections[j][2])>>])] @@ c

PredsStep(c) ==
    [preds |-> Eager([i \in 1..Len(c.track_ids) |->
        <<c.predicted[c.track_ids[i]].state[1], c.predicted[c.track_ids[i]].state[2]>>])] @@ c

\* Step 2: the gated cost matrix (no matrix when there is no track)
GateStep(c) ==
    [gated_cost |-> IF Len(c.preds) = 0 THEN <<>>
                    ELSE GatedCost(GateCostMatrix(c.preds, c.dets), c.self.dist_threshold)] @@ c

\* Step 2: the pairs <<row, col>> linear_sum_assignment returns
AssignStep(c) ==
    [chosen |-> IF Len(c.preds) = 0 THEN <<>>
                ELSE LinearSumAssignment(c.gated_cost, Len(c.preds), Len(c.dets), c.tie)] @@ c

\* the test that keeps a pair: gated_cost[r, c] < 1e6
PairKept(gated, p) == RLt(gated[p[1]][p[2]], RInt(GATED))

KeepStep(c) == [kept |-> SelectSeq(c.chosen, LAMBDA p : PairKept(c.gated_cost, p))] @@ c

\* Step 3: the updates run in the order of the kept pairs and stop at the
\* first that raises
UpdateStep(c) ==
    LET bad == {k \in 1..Len(c.kept) :
                    TrackUpdateRaises(c.predicted[c.track_ids[c.kept[k][1]]], c.self.meas_var)}
        stop == IF bad = {} THEN Len(c.kept) + 1
                ELSE CHOOSE k \in bad : \A o \in bad : k <= o
        done == {k \in 1..Len(c.kept) : k < stop}
    IN  [raised |-> bad # {},
         singular |-> {c.track_ids[c.kept[k][1]] : k \in bad},
         updated_track_ids |-> {c.track_ids[c.kept[k][1]] : k \in done},
         tracks |-> Eager([tid \in DOMAIN c.predicted |->
                       IF \E k \in done : c.track_ids[c.kept[k][1]] = tid
                       THEN TrackUpdate(c.predicted[tid],
                                c.dets[c.kept[CHOOSE k \in done :
                                                  c.track_ids[c.kept[k][1]] = tid][2]],
                                c.self.meas_var, c.wall)
                       ELSE c.predicted[tid]])] @@ c

\* variant: ids numbered anew in every call
SpawnIdPerCall(next_id, unassigned, idx) ==
    1 + Cardinality({k \in unassigned : k < idx})

\* the id the idx-th detection's new track gets: _next_id, advanced once per
\* unassigned detection before it
SpawnId(next_id, unassigned, idx) ==
    next_id + Cardinality({k \in unassigned : k < idx})

\* variant: range and Doppler index swapped in the initial state
SpawnTrackSwapped(tid, det, timestamp) ==
    [id |-> tid, state |-> <<RInt(det[2]), RInt(det[1]), R0, R0>>,
     P |-> Diag4(50, 50, 25, 25), last_update |-> timestamp,
     history |-> <<<<timestamp, RInt(det[1]), RInt(det[2])>>>>, missed |-> 0]

\* the track of an unassigned detection
SpawnTrack(tid, det, timestamp) ==
    [Track(tid, <<RInt(det[1]), RInt(det[2]), R0, R0>>,
           Diag4(50, 50, 25, 25), timestamp)
       EXCEPT !.history = <<<<timestamp, RInt(det[1]), RInt(det[2])>>>>]

\* Step 4: new tracks for the unassigned detections, in the order of the
\* input list; spawned lists the ids in the order of creation
SpawnStep(c) ==
    IF c.raised THEN [spawned |-> <<>>, next_id |-> c.self.next_id] @@ c
    ELSE LET assigned_det_set == {c.kept[k][2] : k \in 1..Len(c.kept)}
             unassigned == (1..Len(c.detections)) \ assigned_det_set
             idxs == SortedIds(unassigned)
             spawned == Eager([i \in 1..Len(idxs) |->
                            SpawnId(c.self.next_id, unassigned, idxs[i])])
             newIds == {spawned[i] : i \in 1..Len(idxs)}
         IN  [spawned |-> spawned,
              next_id |-> c.self.next_id + Cardinality(unassigned),
              tracks |-> Eager([tid \in DOMAIN c.tracks \cup newIds |->
                            IF tid \in newIds
                            THEN SpawnTrack(tid,
                                     c.detections[idxs[CHOOSE i \in 1..Len(idxs) :
                                         /\ spawned[i] = tid
                                         /\ \A o \in 1..Len(idxs) : spawned[o] = tid => o <= i]],
                                     c.timestamp)
                            ELSE c.tracks[tid]])] @@ c

\* variant: prune at max_missed already
PrunedAtMax(t, max_missed) == t.missed >= max_missed

\* the prune test
Pruned(t, max_missed) == t.missed > max_missed

\* Step 5: prune
PruneStep(c) ==
    IF c.raised THEN [to_delete |-> {}] @@ c
    ELSE LET to_delete == {tid \in DOMAIN c.tracks : Pruned(c.tracks[tid], c.self.max_missed)}
         IN  [to_delete |-> to_delete,
              tracks |-> [tid \in (DOMAIN c.tracks) \ to_delete |-> c.tracks[tid]]] @@ c

\* the call ends: the object as the call leaves it, and what the call did
Leave(c) ==
    [self |-> [c.self EXCEPT !.tracks = c.tracks, !.next_id = c.next_id],
     outcome |-> IF c.raised THEN "LinAlgError" ELSE "returned",
     detections |-> c.detections,
     before |-> c.self,
     preds |-> c.preds, dets |-> c.dets, track_ids |-> c.track_ids,
     chosen |-> c.chosen, kept |-> c.kept,
     updated_track_ids |-> c.updated_track_ids, singular |-> c.singular,
     spawned |-> c.spawned, to_delete |-> c.to_delete]

\* The whole of Tracker.update on the tracker object self.  timestamp is the
\* argument (None, or <<t>> for the float t), wall the value of time.time()
\* during the call, tie the tie-breaking of the installed scipy.
TrackerUpdate(self, detections, timestamp, wall, tie) ==
    Leave(PruneStep(SpawnStep(UpdateStep(KeepStep(AssignStep(GateStep(
        PredsStep(PredictStep(Enter(self, detections, timestamp, wall, tie))))))))))

(***************************************************************************)
(* cfar_2d: src/passive_radar/detect/cfar.py.  An RD map is a function     *)
(* from 0..ND-1 (Doppler) to functions from 0..NR-1 (range); indices are   *)
(* the source's.  guard_cells and ref_cells are pairs (doppler, range).    *)
(***************************************************************************)
RECURSIVE SumSeq(_)
SumSeq(seq) == IF seq = <<>> THEN 0 ELSE seq[1] + SumSeq(Tail(seq))

\* range(margin, n - margin)
LoopRange(n, margin) == {i \in 0..(n - 1) : margin <= i /\ i < n - margin}

\* pfa ** (-1 / k) for the argument pfa = base ** (-k), k > 0
PfaRoot(base, k) == base

\* alpha = Td*Tr * (pfa ** (-1 / (Td*Tr)) - 1); -1 / 0 raises ZeroDivisionError
AlphaRaises(ref_cells) == ref_cells[1] * ref_cells[2] = 0

\* the K of alpha = K * (pfa ** (-1 / K) - 1)
AlphaK(ref_cells) == ref_cells[1] * ref_cells[2]

Alpha(ref_cells, base) ==
    AlphaK(ref_cells) * (PfaRoot(base, AlphaK(ref_cells)) - 1)

\* whether window[Td:-(Td+1), Tr:-(Tr+1)] holds the cell in row a and column b
\* of a window of h rows and w columns (both counted from 0)
GuardSlice(ref_cells, h, w, a, b) ==
    /\ ref_cells[1] <= a /\ a < h - (ref_cells[1] + 1)
    /\ ref_cells[2] <= b /\ b < w - (ref_cells[2] + 1)

\* window.size - (2*Gd+1)*(2*Gr+1)
NoiseDivisor(guard_cells, size) ==
    size - (2 * guard_cells[1] + 1) * (2 * guard_cells[2] + 1)

\* the window of the cell under test (i, j) after the guard slice is set to 0,
\* row by row: window = rdmap[dop_min:dop_max+1, rng_min:rng_max+1].copy();
\* window[Td:-(Td+1), Tr:-(Tr+1)] = 0
Window(rdmap, guard_cells, ref_cells, i, j) ==
    LET dop_min == i - (ref_cells[1] + guard_cells[1])
        rng_min == j - (ref_cells[2] + guard_cells[2])
        h == 2 * (ref_cells[1] + guard_cells[1]) + 1
        w == 2 * (ref_cells[2] + guard_cells[2]) + 1
    IN  [k \in 1..(h * w) |->
            LET a == (k - 1) \div w
                b == (k - 1) % w
            IN  IF GuardSlice(ref_cells, h, w, a, b)
                THEN 0
                ELSE rdmap[dop_min + a][rng_min + b]]

\* noise_level = np.sum(window) / (window.size - (2*Gd+1)*(2*Gr+1));
\* threshold = alpha * noise_level
Threshold(rdmap, guard_cells, ref_cells, alpha, i, j) ==
    LET window == Window(rdmap, guard_cells, ref_cells, i, j)
    IN  RMul(RInt(alpha),
             Rat(SumSeq(window), NoiseDivisor(guard_cells, Len(window))))

\* whether the loops visit cell (i, j)
Visited(rdmap, guard_cells, ref_cells, i, j) ==
    /\ i \in LoopRange(Cardinality(DOMAIN rdmap), ref_cells[1] + guard_cells[1])
    /\ j \in LoopRange(Cardinality(DOMAIN rdmap[i]), ref_cells[2] + guard_cells[2])

\* variant: every cell is tested against a zero threshold
DetMapCellAnywhere(rdmap, guard_cells, ref_cells, alpha, i, j) ==
    IF rdmap[i][j] > 0 THEN 1 ELSE 0

\* det_map[i, j] when cfar_2d returns: 0 from np.zeros_like, 1 where a visited
\* cell exceeds its threshold
DetMapCell(rdmap, guard_cells, ref_cells, alpha, i, j) ==
    IF /\ Visited(rdmap, guard_cells, ref_cells, i, j)
       /\ RLt(Threshold(rdmap, guard_cells, ref_cells, alpha, i, j), RInt(rdmap[i][j]))
    THEN 1 ELSE 0

\* thr_map[i, j] when cfar_2d returns
ThrMapCell(rdmap, guard_cells, ref_cells, alpha, i, j) ==
    IF Visited(rdmap, guard_cells, ref_cells, i, j)
    THEN Threshold(rdmap, guard_cells, ref_cells, alpha, i, j)
    ELSE R0

\* cfar_2d(rdmap, guard_cells, ref_cells, pfa) with pfa = base ** (-Td*Tr)
Cfar2d(rdmap, guard_cells, ref_cells, base) ==
    IF AlphaRaises(ref_cells)
    THEN [outcome |-> "ZeroDivisionError", det_map |-> <<>>, thr_map |-> <<>>]
    ELSE [outcome |-> "returned",
          det_map |-> [i \in DOMAIN rdmap |-> [j \in DOMAIN rdmap[i] |->
                          DetMapCell(rdmap, guard_cells, ref_cells,
                                     Alpha(ref_cells, base), i, j)]],
          thr_map |-> [i \in DOMAIN rdmap |-> [j \in DOMAIN rdmap[i] |->
                          ThrMapCell(rdmap, guard_cells, ref_cells,
                                     Alpha(ref_cells, base), i, j)]]]

(***************************************************************************)
(* The state machine of one Tracker object.                                *)
(***************************************************************************)
MaxCalls == 4
MaxDets == 2

\* the Tracker objects and input cells the model runs
Scenarios ==
    { \* default measurement noise, a gate of one cell
      [tracker |-> Tracker(R1, R0, RInt(10), RInt(1), 1),
       cells |-> {<<1, 0>>, <<2, 0>>, <<3, 0>>}],
      \* exact measurements of a target that does not manoeuvre
      [tracker |-> Tracker(R1, R0, R0, RInt(1), 0),
       cells |-> {<<0, 4>>, <<0, 5>>}],
      \* a gate wider than the cost written over gated-out entries
      [tracker |-> Tracker(R1, R0, RInt(25), RInt(2 * GATED), 1),
       cells |-> {<<0, 0>>, <<GATED + GATED \div 2, 0>>}] }

\* detection lists of at most MaxDets detections (r_idx, d_idx, power), no
\* cell twice, as extract_detections lists them
DetectionLists(cs) ==
    UNION {{f \in [1..n -> {<<c[1], c[2], 1>> : c \in cs}] :
                \A a, b \in 1..n : a # b => f[a] # f[b]} : n \in 0..MaxDets}

\* the timestamp argument of the k-th call: the caller passes its clock
\* reading (here k) in every call, or leaves the argument out
Timestamp(given, k) == IF given THEN <<k>> ELSE None

\* the clock of the second object starts elsewhere
TwinEpoch == 5000

\* no call of cfar_2d
NoCfar ==
    [rdmap |-> <<>>, guard_cells |-> <<0, 0>>, ref_cells |-> <<0, 0>>, base |-> 1,
     outcome |-> "none", det_map |-> <<>>, thr_map |-> <<>>]

\* before the first call
NoCall(self) ==
    [detections |-> <<>>, before |-> self, preds |-> <<>>, dets |-> <<>>,
     track_ids |-> <<>>, chosen |-> <<>>, kept |-> <<>>,
     updated_track_ids |-> {}, singular |-> {}, spawned |-> <<>>, to_delete |-> {}]

\* none of the other components is in use
ChainParked ==
    /\ server = None
    /\ reader = None
    /\ source = None
    /\ dsp = None
    /\ disk = None

Init ==
    /\ \E sc \in Scenarios : tracker = sc.tracker /\ cells = sc.cells
    /\ scipy_tie \in {"first", "last"}
    /\ stamps \in BOOLEAN
    /\ epoch = 100
    /\ calls = 0
    /\ outcome = "none"
    /\ call = NoCall(tracker)
    /\ born = <<>>
    /\ twin = [tracker |-> tracker, epoch |-> TwinEpoch, outcome |-> "none"]
    /\ cfar = NoCfar
    /\ ChainParked

\* what a finished call leaves behind
Commit(res) ==
    /\ tracker' = res.self
    /\ outcome' = res.outcome
    /\ call' = [k \in DOMAIN call |-> res[k]]
    /\ born' = born \o res.spawned

\* one call of Tracker.update; an exception leaves the caller's loop, which
\* no caller in the repository catches
Update(detections, timestamp) ==
    /\ calls < MaxCalls
    /\ outcome # "LinAlgError"
    /\ Commit(TrackerUpdate(tracker, detections, timestamp, epoch + calls + 1, scipy_tie))
    /\ calls' = calls + 1
    /\ UNCHANGED <<cells, scipy_tie, epoch, stamps, cfar, chain>>

Next ==
    \E detections \in DetectionLists(cells) :
        Update(detections, Timestamp(stamps, calls + 1)) /\ UNCHANGED twin

Spec == Init /\ [][Next]_vars

(***************************************************************************)
(* Two Tracker objects built with the same parameters, in the same         *)
(* installation, fed the same detection lists and timestamps.  Each reads  *)
(* its own clock.                                                          *)
(***************************************************************************)
TwinCommit(res) == twin' = [twin EXCEPT !.tracker = res.self, !.outcome = res.outcome]

TwinUpdate(detections, timestamp) ==
    TwinCommit(TrackerUpdate(twin.tracker, detections, timestamp,
                             twin.epoch + calls + 1, scipy_tie))

NextPair ==
    \E detections \in DetectionLists(cells) :
        /\ Update(detections, Timestamp(stamps, calls + 1))
        /\ TwinUpdate(detections, Timestamp(stamps, calls + 1))

SpecPair == Init /\ [][NextPair]_vars


(***************************************************************************)
(* One call of cfar_2d.                                                    *)
(***************************************************************************)
MaxDoppler == 3
MaxRange == 5
MaxPeaks == 2
MaxGuard == 1
MaxTrain == 1
MaxBase == 2

\* the magnitude of a noise cell and of a peak
Floor == 1
Peak == 9

\* the RD maps of ND x NR cells: noise, with at most MaxPeaks peaks
RdMaps(nd, nr) ==
    {[i \in 0..(nd - 1) |-> [j \in 0..(nr - 1) |->
         IF <<i, j>> \in peaks THEN Peak ELSE Floor]] :
       peaks \in {ps \in SUBSET ((0..(nd - 1)) \X (0..(nr - 1))) : Cardinality(ps) <= MaxPeaks}}

\* no tracker call is under way
TrackingParked ==
    /\ tracker = Tracker(R1, R1, RInt(10), RInt(10), 5)
    /\ cells = {}
    /\ scipy_tie = "first"
    /\ stamps = TRUE
    /\ epoch = 100
    /\ calls = 0
    /\ outcome = "none"
    /\ call = NoCall(tracker)
    /\ born = <<>>
    /\ twin = [tracker |-> tracker, epoch |-> TwinEpoch, outcome |-> "none"]

InitCfar ==
    /\ TrackingParked
    /\ ChainParked
    /\ \E nd \in 1..MaxDoppler, nr \in 1..MaxRange :
       \E rdmap \in RdMaps(nd, nr) :
       \E gd \in 0..MaxGuard, gr \in 0..MaxGuard, td \in 0..MaxTrain, tr \in 0..MaxTrain :
       \E base \in 1..MaxBase :
          cfar = [NoCfar EXCEPT !.rdmap = rdmap, !.guard_cells = <<gd, gr>>,
                                !.ref_cells = <<td, tr>>, !.base = base]

CfarCommit(res) ==
    cfar' = [cfar EXCEPT !.outcome = res.outcome, !.det_map = res.det_map,
                         !.thr_map = res.thr_map]

CallCfar ==
    /\ cfar.outcome = "none"
    /\ CfarCommit(Cfar2d(cfar.rdmap, cfar.guard_cells, cfar.ref_cells, cfar.base))
    /\ UNCHANGED <<tracking, chain>>

NextCfar == CallCfar

SpecCfar == InitCfar /\ [][NextCfar]_vars

(***************************************************************************)
(* Properties of Tracker.update.                                           *)
(***************************************************************************)
Table == tracker.tracks
Old == call.before.tracks
Returned == calls > 0 /\ outcome = "returned"
Range(seq) == {seq[i] : i \in 1..Len(seq)}

\* the index of the call that last updated or created t (clock readings are
\* epoch + k, given timestamps k)
LastFrame(t) == IF t.last_update > epoch THEN t.last_update - epoch ELSE t.last_update

\* the distance of the pair p = <<row, col>> of the last call
PairDistance(p) ==
    Norm2(<<RSub(call.preds[p[1]][1], call.dets[p[2]][1]),
            RSub(call.preds[p[1]][2], call.dets[p[2]][2])>>)

\* C1: every track is created with an id greater than the id of every track
\* created before it, so ids are unique among live and deleted tracks and the
\* id of a deleted track is never given out again
C1_IdsStrictlyIncreasing ==
    /\ \A i, j \in 1..Len(born) : i < j => born[i] < born[j]
    /\ DOMAIN Table \subseteq Range(born)
    /\ \A tid \in DOMAIN Table : Table[tid].id = tid
    /\ \A i \in 1..Len(born) : born[i] < tracker.next_id

\* a track was deleted in an earlier call, and the last call created a track
C1_Witness ==
    /\ Len(call.spawned) > 0
    /\ \E i \in 1..Len(born) :
          born[i] \notin DOMAIN Table /\ born[i] \notin DOMAIN Old
          /\ born[i] \notin Range(call.spawned)

\* the number of consecutive frames, the last call included, in which track
\* tid of the last call got neither created nor updated
Streak(tid) ==
    IF tid \in call.updated_track_ids \/ tid \in Range(call.spawned) THEN 0
    ELSE calls - LastFrame(Old[tid])

\* C2: after update returns, a track of the call is gone from the table iff its
\* missed counter exceeded max_missed: the tracks in the table have
\* 0 <= missed <= max_missed, and a track is removed in the (max_missed+1)-th
\* consecutive frame without an assignment, not earlier
C2_PruneIff ==
    Returned =>
        /\ \A tid \in DOMAIN Table :
              /\ 0 <= Table[tid].missed /\ Table[tid].missed <= tracker.max_missed
              /\ Table[tid].missed = Streak(tid)
        /\ \A tid \in DOMAIN Old \cup Range(call.spawned) :
              /\ (tid \notin DOMAIN Table) <=> (tid \in call.to_delete)
              /\ (tid \in call.to_delete) <=> (Streak(tid) > tracker.max_missed)
              /\ (tid \in call.to_delete) => (Streak(tid) = tracker.max_missed + 1)

\* a call that deletes one track and keeps another that coasts at max_missed
C2_Witness ==
    /\ Returned
    /\ call.to_delete # {}
    /\ \E tid \in DOMAIN Table :
          Table[tid].missed = tracker.max_missed /\ tracker.max_missed >= 1

Predicted(tid) == PredictAll(Old, call.before.dt, call.before.process_var)[tid]

C4_Occlusion ==
    (calls > 0 /\ Cardinality(DOMAIN Old) = 1) =>
        \A tid \in DOMAIN Old :
            /\ (Len(call.detections) = 0 /\ Old[tid].missed + 1 <= tracker.max_missed)
                  => (tid \in DOMAIN Table /\ Table[tid].id = tid)
            /\ (/\ Len(call.detections) = 1
                /\ Old[tid].missed >= 1
                /\ RLe(PairDistance(<<1, 1>>), tracker.dist_threshold))
                  => /\ tid \in call.updated_track_ids
                     /\ tid \in DOMAIN Table
                     /\ Len(call.spawned) = 0

C6_KeptIffInGate ==
    \A k \in 1..Len(call.chosen) :
        (call.chosen[k] \in Range(call.kept))
            <=> RLe(PairDistance(call.chosen[k]), tracker.dist_threshold)

\* the pairs <<track row, measurement>> of the call whose distance is within
\* the gate
InGate ==
    {p \in (1..Len(call.preds)) \X (1..Len(call.dets)) :
        RLe(PairDistance(p), call.before.dist_threshold)}

\* no row and no measurement twice
OneToOne(pairs) ==
    \A p, q \in pairs : p # q => p[1] # q[1] /\ p[2] # q[2]

\* the total distance of a set of pairs
RECURSIVE TotalDistance(_)
TotalDistance(pairs) ==
    IF pairs = {} THEN R0
    ELSE LET p == CHOOSE q \in pairs : TRUE
         IN  RAdd(PairDistance(p), TotalDistance(pairs \ {p}))

\* C25: the kept pairs of a call are a one-to-one matching of in-gate pairs,
\* no one-to-one matching of in-gate pairs has more pairs, and none with as
\* many pairs has a smaller total distance
C25_OptimalMatching ==
    calls > 0 =>
        /\ Range(call.kept) \subseteq InGate
        /\ OneToOne(Range(call.kept))
        /\ \A M \in SUBSET InGate :
              OneToOne(M) =>
                 /\ Cardinality(M) <= Len(call.kept)
                 /\ Cardinality(M) = Len(call.kept) =>
                       RLe(TotalDistance(Range(call.kept)), TotalDistance(M))

\* the same for the calls in which every in-gate distance is below the cost
\* written over gated-out entries
OptimalBelowSentinel ==
    (\A p \in InGate : RLt(PairDistance(p), RInt(GATED))) => C25_OptimalMatching

\* the bound a history is held to
HistoryBound == 3

\* C29: the history of a track never holds more than a fixed number of
\* triples, however many frames update the track
C29_HistoryBounded ==
    \A tid \in DOMAIN Table : Len(Table[tid].history) <= HistoryBound

\* what a call does to the histories: one triple more for every updated
\* track, none removed
HistoryOnlyGrows ==
    [][\A tid \in DOMAIN Table \cap DOMAIN tracker'.tracks :
          /\ Len(tracker'.tracks[tid].history)
                = Len(Table[tid].history) + (IF tid \in call'.updated_track_ids THEN 1 ELSE 0)
          /\ SubSeq(tracker'.tracks[tid].history, 1, Len(Table[tid].history))
                = Table[tid].history]_vars

\* C7: a track whose innovation covariance is singular is carried as coasted,
\* and update returns
C7_SingularSkipped ==
    \A tid \in call.singular :
        /\ outcome = "returned"
        /\ tid \in DOMAIN Table
        /\ Table[tid].missed = Old[tid].missed + 1

\* C8: two objects with the same parameters and the same inputs hold the same
\* ids and, per id, the same state, covariance and missed counter after every
\* frame, whatever their clocks read
C8_Reproducible ==
    /\ twin.outcome = outcome
    /\ twin.tracker.next_id = tracker.next_id
    /\ DOMAIN twin.tracker.tracks = DOMAIN Table
    /\ \A tid \in DOMAIN Table :
          /\ twin.tracker.tracks[tid].id = Table[tid].id
          /\ twin.tracker.tracks[tid].state = Table[tid].state
          /\ twin.tracker.tracks[tid].P = Table[tid].P
          /\ twin.tracker.tracks[tid].missed = Table[tid].missed

\* both objects hold a track they updated at different clock readings, next to
\* a track that coasts
C8_Witness ==
    /\ calls >= 2
    /\ \E tid \in DOMAIN Table :
          /\ tid \in DOMAIN twin.tracker.tracks
          /\ Len(Table[tid].history) >= 2
          /\ twin.tracker.tracks[tid].last_update # Table[tid].last_update
    /\ \E tid \in DOMAIN Table : Table[tid].missed >= 1

\* C9: among the assignments of minimal total cost the call takes the one that
\* gives the lower track id the contested measurement, and a track the
\* measurement with the lower index
C9_TieBreak ==
    Len(call.preds) > 0 =>
        call.chosen =
            LinearSumAssignment(
                GatedCost(GateCostMatrix(call.preds, call.dets), tracker.dist_threshold),
                Len(call.preds), Len(call.dets), "first")

(***************************************************************************)
(* Properties of cfar_2d.                                                  *)
(***************************************************************************)
ND == Cardinality(DOMAIN cfar.rdmap)
NR == Cardinality(DOMAIN cfar.rdmap[0])
MarginD == cfar.guard_cells[1] + cfar.ref_cells[1]
MarginR == cfar.guard_cells[2] + cfar.ref_cells[2]

MaxClients == 2
MaxFrames == 3

Sockets == 1..MaxClients

\* RealtimeRadarServer.__init__ and the entry of run()
RealtimeRadarServer ==
    [pc |-> "serve",        \* run() stands at: "serve", "next", "broadcast", "done"
     clients |-> {},        \* self.clients
     conn |-> [ws \in Sockets |-> "absent"],  \* "absent", "open", "closed", "gone"
     frame |-> 0,           \* chunks processed so far
     audience |-> {},       \* the clients the running gather was built from
     sending |-> {},        \* the sends of that gather that have not finished
     raised |-> FALSE,      \* a send of that gather raised ConnectionClosed
     got |-> [ws \in Sockets |-> <<>>]]       \* the frames sent to each client

\* run() is suspended at an await, the event loop runs the other tasks
Suspended(self) == self.pc \in {"serve", "broadcast"}

\* the variables a step of the server leaves alone
beside_server == <<tracking, cfar, reader, source, dsp, disk>>

\* await websockets.serve(...) returns
Serve ==
    /\ server.pc = "serve"
    /\ server' = [server EXCEPT !.pc = "next"]
    /\ UNCHANGED beside_server

\* _ws_handler up to its async for: self.clients.add(websocket)
WsHandlerEnter(ws) ==
    /\ Suspended(server)
    /\ server.conn[ws] = "absent"
    /\ server' = [server EXCEPT !.clients = @ \cup {ws}, !.conn[ws] = "open"]
    /\ UNCHANGED beside_server

\* the peer went away and the protocol of the connection has seen it: the
\* async for of its handler is over, a send on it raises ConnectionClosed
ConnectionLost(ws) ==
    /\ Suspended(server)
    /\ server.conn[ws] = "open"
    /\ server' = [server EXCEPT !.conn[ws] = "closed"]
    /\ UNCHANGED beside_server

\* _ws_handler after its async for: finally: self.clients.remove(websocket)
WsHandlerExit(ws) ==
    /\ Suspended(server)
    /\ server.conn[ws] = "closed"
    /\ server' = [server EXCEPT !.clients = @ \ {ws}, !.conn[ws] = "gone"]
    /\ UNCHANGED beside_server

\* one turn of the while loop of run() with no client: the chunk is read and
\* processed, _broadcast returns at once and the loop goes on without an await
FrameUnheard ==
    /\ server.pc = "next"
    /\ server.frame < MaxFrames
    /\ server.clients = {}
    /\ server' = [server EXCEPT !.frame = @ + 1, !.audience = {}]
    /\ UNCHANGED beside_server

\* one turn of the while loop of run() up to the await of _broadcast:
\* asyncio.gather(*[ws.send(msg) for ws in self.clients])
FrameBroadcast ==
    /\ server.pc = "next"
    /\ server.frame < MaxFrames
    /\ server.clients # {}
    /\ server' = [server EXCEPT !.frame = @ + 1, !.pc = "broadcast",
                                !.audience = server.clients,
                                !.sending = server.clients, !.raised = FALSE]
    /\ UNCHANGED beside_server

\* ws.send(msg) on an open connection
SendDone(ws) ==
    /\ server.pc = "broadcast"
    /\ ws \in server.sending
    /\ server.conn[ws] = "open"
    /\ server' = [server EXCEPT !.sending = @ \ {ws},
                                !.got[ws] = Append(@, server.frame)]
    /\ UNCHANGED beside_server

\* ws.send(msg) on a closed connection raises ConnectionClosed
SendRaises(ws) ==
    /\ server.pc = "broadcast"
    /\ ws \in server.sending
    /\ server.conn[ws] # "open"
    /\ server' = [server EXCEPT !.sending = @ \ {ws}, !.raised = TRUE]
    /\ UNCHANGED beside_server

\* every send has finished: the gather returns and run() goes round its loop
GatherReturns ==
    /\ server.pc = "broadcast"
    /\ server.sending = {}
    /\ ~server.raised
    /\ server' = [server EXCEPT !.pc = "next"]
    /\ UNCHANGED beside_server

\* the gather was called without return_exceptions: the first exception of a
\* send is raised at the await in run(), which has no handler for it but
\* finally: self.reader.stop(); ws_server.close()
GatherRaises ==
    /\ server.pc = "broadcast"
    /\ server.raised
    /\ server' = [server EXCEPT !.pc = "done"]
    /\ UNCHANGED beside_server

InitServer ==
    /\ TrackingParked
    /\ cfar = NoCfar
    /\ reader = None
    /\ source = None
    /\ dsp = None
    /\ disk = None
    /\ server = RealtimeRadarServer

NextServer ==
    \/ Serve
    \/ \E ws \in Sockets : WsHandlerEnter(ws)
    \/ \E ws \in Sockets : ConnectionLost(ws)
    \/ \E ws \in Sockets : WsHandlerExit(ws)
    \/ FrameUnheard
    \/ FrameBroadcast
    \/ \E ws \in Sockets : SendDone(ws)
    \/ \E ws \in Sockets : SendRaises(ws)
    \/ GatherReturns
    \/ GatherRaises

SpecServer == InitServer /\ [][NextServer]_vars

\* C11: a client that disconnects, also while a send to it is in flight, is
\* removed from self.clients, every client of the broadcast that is still
\* connected has been sent the frame when the broadcast is over, and the
\* loop of run() is not left.
C11_DisconnectTolerated ==
    /\ server.pc # "done"
    /\ \A ws \in Sockets : server.conn[ws] = "gone" => ws \notin server.clients
    /\ server.pc = "next" =>
          \A ws \in server.audience :
              server.conn[ws] = "open" =>
                  \E k \in 1..Len(server.got[ws]) : server.got[ws][k] = server.frame

\* C30: run() gives control to the event loop at least once per frame, also
\* while self.clients is empty, so that the handler of a client that
\* connects meanwhile can run and add it to self.clients: a turn of the
\* loop ends at an await at which run() is suspended.
C30_YieldsEveryFrame ==
    [][server'.frame > server.frame => Suspended(server')]_vars

\* with a client in self.clients every turn of the loop is suspended at the
\* gather of its broadcast
YieldsWhenHeard ==
    [][server'.frame > server.frame /\ server.clients # {} => Suspended(server')]_vars

\* once run() is in its loop with no client, no client is ever added
EmptyStaysEmpty ==
    [][server.pc = "next" /\ server.clients = {} => server'.clients = {}]_vars

(***************************************************************************)
(* UDPReader (src/passive_radar/capture/kraken_reader.py).  A datagram is  *)
(* the sequence of its bytes; byte k of a datagram is written k, float f   *)
(* of a packet is the group of bytes 4f-3..4f and is written f, and an IQ  *)
(* sample is the pair <<f_I, f_Q>> of the floats it was built from.        *)
(***************************************************************************)
BufferSize == 24
MaxDatagram == BufferSize + 9
MaxBlocks == 2

\* socket.recvfrom(bufsize) on a datagram socket: the first bufsize bytes of
\* the datagram, the rest of it is discarded
RecvFrom(datagram_len, bufsize) == IF datagram_len > bufsize THEN bufsize ELSE datagram_len

\* every second element of 1..n, from first on: iq_raw[::2], iq_raw[1::2]
EverySecond(first, n) ==
    LET count == IF n < first THEN 0 ELSE (n - first) \div 2 + 1
    IN  [k \in 1..count |-> first + 2 * (k - 1)]

\* the shape numpy broadcasts two 1-D shapes to, None when it cannot
Broadcast(a, b) ==
    IF a = b THEN <<a>> ELSE IF a = 1 THEN <<b>> ELSE IF b = 1 THEN <<a>> ELSE None

\* one turn of the while loop of read_stream on a packet of packet_len bytes
ReadStreamTurn(packet_len) ==
    LET num_floats == packet_len \div 4
        I == EverySecond(1, num_floats)
        Q == EverySecond(2, num_floats)
        shape == Broadcast(Len(I), Len(Q))
    IN  IF packet_len = 0 THEN [outcome |-> "continue", iq |-> <<>>]
        ELSE IF packet_len # 4 * num_floats THEN [outcome |-> "struct.error", iq |-> <<>>]
        ELSE IF shape = None THEN [outcome |-> "ValueError", iq |-> <<>>]
        ELSE [outcome |-> "yield",
              iq |-> [n \in 1..shape[1] |->
                         <<I[IF Len(I) = 1 THEN 1 ELSE n], Q[IF Len(Q) = 1 THEN 1 ELSE n]>>]]

\* UDPReader.__init__ and start(); log holds, per datagram received, its
\* length and what read_stream did with it
UDPReader(buffer_size) ==
    [buffer_size |-> buffer_size, outcome |-> "running", blocks |-> 0, log |-> <<>>]

beside_reader == <<tracking, cfar, server, source, dsp, disk>>

ReaderCommit(datagram_len, res) ==
    reader' = [reader EXCEPT
                  !.outcome = IF res.outcome \in {"continue", "yield"} THEN "running"
                              ELSE res.outcome,
                  !.blocks = IF res.outcome = "yield" THEN @ + 1 ELSE @,
                  !.log = Append(@, [datagram_len |-> datagram_len,
                                     outcome |-> res.outcome, iq |-> res.iq])]

\* the consumer asks read_stream for its next block and a datagram arrives
Recv(datagram_len) ==
    /\ reader.outcome = "running"
    /\ reader.blocks < MaxBlocks
    /\ Len(reader.log) < MaxBlocks + 1
    /\ ReaderCommit(datagram_len,
                    ReadStreamTurn(RecvFrom(datagram_len, reader.buffer_size)))
    /\ UNCHANGED beside_reader

\* an empty datagram, one of whole floats, one that ends inside a float
RecvContinue == Recv(0)
RecvFloats == \E n \in 1..MaxDatagram : n % 4 = 0 /\ Recv(n)
RecvRagged == \E n \in 1..MaxDatagram : n % 4 # 0 /\ Recv(n)

InitReader ==
    /\ TrackingParked
    /\ cfar = NoCfar
    /\ server = None
    /\ source = None
    /\ dsp = None
    /\ disk = None
    /\ reader = UDPReader(BufferSize)

NextReader == RecvContinue \/ RecvFloats \/ RecvRagged

SpecReader == InitReader /\ [][NextReader]_vars

\* a datagram of the expected size: buffer_size bytes
WellFormed(datagram_len) == datagram_len = reader.buffer_size

\* C12: a datagram shorter than the expected block size, or not a whole
\* number of complex samples, is dropped without an exception and without a
\* block; a longer datagram gives the block of its first buffer_size bytes.
C12_MalformedDropped ==
    \A k \in 1..Len(reader.log) :
        LET d == reader.log[k]
        IN  /\ d.datagram_len < reader.buffer_size \/ d.datagram_len % 8 # 0
                => d.outcome = "continue"
            /\ d.datagram_len > reader.buffer_size /\ d.datagram_len % 8 = 0
                => d.outcome = "yield" /\ Len(d.iq) = reader.buffer_size \div 8

(***************************************************************************)
(* read_iq_file (src/passive_radar/capture/kraken_reader.py).  The file is *)
(* a sequence of bytes; float f of the file is the group of bytes          *)
(* 4f-3..4f, written f, and a sample is the pair of floats it is made of.  *)
(***************************************************************************)
MaxSamples == 7
MaxChunk == 4
TestSamples == 100
TestChunk == 10

\* variant: a read that returns nothing unless all n bytes are there
FileReadWhole(size, pos, n) == IF size - pos >= n THEN n ELSE 0

\* f.read(n) on a file of size bytes, at byte pos: the number of bytes read
FileRead(size, pos, n) == IF size - pos >= n THEN n ELSE size - pos

\* one turn of the while loop of read_iq_file
ReadIqTurn(size, pos, chunk_size) ==
    LET nbytes == FileRead(size, pos, chunk_size * 2 * 4)
        before == pos \div 4
        I == EverySecond(1, nbytes \div 4)
        Q == EverySecond(2, nbytes \div 4)
    IN  [outcome |-> IF nbytes \div 4 = 0 THEN "break" ELSE "yield",
         pos |-> pos + nbytes,
         iq |-> [n \in 1..Len(I) |-> <<before + I[n], before + Q[n]>>]]

\* read_iq_file(file_path, chunk_size): the generator before its first next();
\* samples is the number of whole samples in the file
ReadIqFile(exists, samples, chunk_size) ==
    [exists |-> exists, size |-> 8 * samples, chunk_size |-> chunk_size,
     pos |-> 0, outcome |-> "created", blocks |-> <<>>]

beside_source == <<tracking, cfar, server, reader, dsp, disk>>

\* next() on a generator whose file is missing
NextMissing ==
    /\ source.outcome = "created"
    /\ ~source.exists
    /\ source' = [source EXCEPT !.outcome = "FileNotFoundError"]
    /\ UNCHANGED beside_source

SourceCommit(res) ==
    source' = [source EXCEPT
                  !.pos = res.pos,
                  !.outcome = IF res.outcome = "yield" THEN "suspended" ELSE "StopIteration",
                  !.blocks = IF res.outcome = "yield" THEN Append(@, res.iq) ELSE @]

\* next() on a generator whose file is there
NextBlock ==
    /\ source.outcome \in {"created", "suspended"}
    /\ source.exists
    /\ SourceCommit(ReadIqTurn(source.size, source.pos, source.chunk_size))
    /\ UNCHANGED beside_source

InitSource ==
    /\ TrackingParked
    /\ cfar = NoCfar
    /\ server = None
    /\ reader = None
    /\ dsp = None
    /\ disk = None
    /\ \E exists \in BOOLEAN :
       \E lc \in ((0..MaxSamples) \X (1..MaxChunk)) \cup {<<TestSamples, TestChunk>>} :
          source = ReadIqFile(exists, lc[1], lc[2])

NextSource == NextMissing \/ NextBlock

SpecSource == InitSource /\ [][NextSource]_vars

\* ceil(a / b)
CeilDiv(a, b) == (a + b - 1) \div b

\* C13: the blocks yielded so far are the leading chunks of the file, of
\* chunk_size samples each, in file order; when the generator has finished
\* there are ceil(L / c) of them, only the last may be shorter, and together
\* they are the L samples of the file; a missing file gives
\* FileNotFoundError and no block.
C13_FileChunks ==
    LET L == source.size \div 8
        c == source.chunk_size
        n == Len(source.blocks)
    IN  /\ \A k \in 1..n :
              /\ Len(source.blocks[k]) >= 1
              /\ Len(source.blocks[k]) <= c
              /\ k < n => Len(source.blocks[k]) = c
              /\ \A i \in 1..Len(source.blocks[k]) :
                    source.blocks[k][i] = <<2 * ((k - 1) * c + i) - 1, 2 * ((k - 1) * c + i)>>
        /\ source.outcome = "StopIteration" =>
              /\ n = CeilDiv(L, c)
              /\ n > 0 => (n - 1) * c + Len(source.blocks[n]) = L
        /\ ~source.exists => n = 0 /\ source.outcome \in {"created", "FileNotFoundError"}
        /\ source.exists => source.outcome # "FileNotFoundError"

\* a file of 100 samples read by 10 and a file ending in a short block, both
\* read to the end
C13_Witness ==
    /\ source.outcome = "StopIteration"
    /\ \/ source.size = 8 * TestSamples /\ Len(source.blocks) = 10
       \/ /\ Len(source.blocks) >= 2
          /\ Len(source.blocks[Len(source.blocks)]) < source.chunk_size

(***************************************************************************)
(* mti_filter (src/passive_radar/preprocess/filters.py) on a 1-D array.    *)
(* An array is a sequence; index n of numpy is position n + 1 here.        *)
(***************************************************************************)
MaxN == 3
MaxDelay == 4
MaxValue == 2

\* a slice bound of Python on a sequence of length n
PyBound(i, n) ==
    IF i < 0 THEN (IF i + n < 0 THEN 0 ELSE i + n) ELSE (IF i > n THEN n ELSE i)

\* x[start:stop]
PySlice(x, start, stop) ==
    LET a == PyBound(start, Len(x))
        b == PyBound(stop, Len(x))
    IN  [k \in 1..(IF b > a THEN b - a ELSE 0) |-> x[a + k]]

\* a - b of two 1-D arrays, None when their shapes do not broadcast
ArraySub(a, b) ==
    LET shape == Broadcast(Len(a), Len(b))
    IN  IF shape = None THEN None
        ELSE <<[n \in 1..shape[1] |->
                   a[IF Len(a) = 1 THEN 1 ELSE n] - b[IF Len(b) = 1 THEN 1 ELSE n]]>>

\* out[start:] = value, None when value does not broadcast into the slice
SliceAssign(out, start, value) ==
    LET a == PyBound(start, Len(out))
        room == Len(out) - a
    IN  IF Len(value) # room /\ Len(value) # 1 THEN None
        ELSE <<[n \in 1..Len(out) |->
                   IF n <= a THEN out[n]
                   ELSE value[IF Len(value) = 1 THEN 1 ELSE n - a]]>>

\* the 1-D branch of mti_filter
MtiFilter(data, delay) ==
    LET zeros == [n \in 1..Len(data) |-> 0]
        diff == ArraySub(PySlice(data, delay, Len(data)), PySlice(data, 0, 0 - delay))
        out == IF diff = None THEN None ELSE SliceAssign(zeros, delay, diff[1])
    IN  IF out = None THEN [outcome |-> "ValueError", out |-> <<>>]
        ELSE [outcome |-> "returned", out |-> out[1]]

\* the arrays of length n over 0..MaxValue
Arrays(n) == [1..n -> 0..MaxValue]

beside_dsp == <<tracking, cfar, server, reader, source, disk>>

DspCommit(res) == dsp' = [dsp EXCEPT !.outcome = res.outcome, !.out = res.out]

CallMtiFilter ==
    /\ dsp.outcome = "none"
    /\ DspCommit(MtiFilter(dsp.data, dsp.delay))
    /\ UNCHANGED beside_dsp

InitMti ==
    /\ TrackingParked
    /\ cfar = NoCfar
    /\ server = None
    /\ reader = None
    /\ source = None
    /\ disk = None
    /\ \E n \in 0..MaxN : \E data \in Arrays(n) : \E delay \in 0..MaxDelay :
          dsp = [fn |-> "mti_filter", data |-> data, delay |-> delay,
                 outcome |-> "none", out |-> <<>>]

NextMti == CallMtiFilter

SpecMti == InitMti /\ [][NextMti]_vars

\* C14: for every 1-D signal x of length N and every delay D >= 0 the call
\* returns N values, x[n] - x[n-D] at the indices n >= D and 0 below.
C14_MtiDifference ==
    dsp.outcome # "none" =>
        /\ dsp.outcome = "returned"
        /\ Len(dsp.out) = Len(dsp.data)
        /\ \A n \in 0..(Len(dsp.data) - 1) :
              dsp.out[n + 1] = IF n >= dsp.delay
                               THEN dsp.data[n + 1] - dsp.data[n - dsp.delay + 1]
                               ELSE 0

(***************************************************************************)
(* normalize (src/passive_radar/preprocess/filters.py).  The result        *)
(* data / sqrt(p) is kept as the pair of data and the rational p.  eps     *)
(* is 1 / EpsInv; the 1e-9 of the source is scaled to the 32-bit           *)
(* arithmetic.                                                             *)
(***************************************************************************)
EpsInv == 100000
MaxMagnitude == 3

\* np.sum(np.abs(data) ** 2)
SumSq(data) == SumSeq([n \in 1..Len(data) |-> data[n] * data[n]])

\* normalize(data, eps)
Normalize(data, eps) ==
    [outcome |-> "returned",
     out |-> [data |-> data,
              power_sq |-> RAdd(Rat(SumSq(data), Len(data)), eps)]]

\* np.linalg.norm(out) ** 2 for out = data / sqrt(power_sq)
NormSq(out) == RDiv(RInt(SumSq(out.data)), out.power_sq)

CallNormalize ==
    /\ dsp.outcome = "none"
    /\ DspCommit(Normalize(dsp.data, Rat(1, EpsInv)))
    /\ UNCHANGED beside_dsp

InitNormalize ==
    /\ TrackingParked
    /\ cfar = NoCfar
    /\ server = None
    /\ reader = None
    /\ source = None
    /\ disk = None
    /\ \E n \in 1..MaxN : \E data \in [1..n -> 0..MaxMagnitude] :
          dsp = [fn |-> "normalize", data |-> data, outcome |-> "none", out |-> <<>>]

NextNormalize == CallNormalize

SpecNormalize == InitNormalize /\ [][NextNormalize]_vars

\* how far from 1 a squared norm may be and still count as 1: 1 / TolInv
TolInv == 100

\* C15: the array normalize returns for a non-zero input has Euclidean
\* norm 1, whatever its length.
C15_UnitNorm ==
    dsp.outcome = "returned" /\ SumSq(dsp.data) # 0 =>
        RLe(RAbs(RSub(NormSq(dsp.out), R1)), Rat(1, TolInv))

(***************************************************************************)
(* morph_clean (src/src/morphology.py).  A map is a function from rows to  *)
(* functions from columns to 0 or 1; a boolean mask is a function from     *)
(* cells to truth values.  binary_opening, binary_closing and              *)
(* remove_small_objects are those of skimage.morphology: erosion reads the *)
(* cells outside the image as true, dilation as false, and dilation        *)
(* mirrors the footprint.                                                  *)
(***************************************************************************)
MaskRows == 3
MaskCols == 3
MaxStructure == 3
MaxMinSize == 4

\* the cells of a map
Cells(map) == (DOMAIN map) \X (DOMAIN map[0])

\* detection_map.astype(bool): the cell -> truth value table of the map
AsBool(map) == Eager([c \in Cells(map) |-> map[c[1]][c[2]] # 0])

\* mask.astype(np.uint8) on the grid of map
AsUint8(mask, map) ==
    [i \in DOMAIN map |-> [j \in DOMAIN map[0] |-> IF mask[<<i, j>>] THEN 1 ELSE 0]]

\* the cells of np.ones((k, k)) relative to its centre (k \div 2, k \div 2)
Footprint(k) ==
    {<<a - k \div 2, b - k \div 2>> : a \in 0..(k - 1), b \in 0..(k - 1)}

\* variant: the cells outside the image read as false
BinaryErosionZeroBorder(mask, k) ==
    Eager([c \in DOMAIN mask |-> \A o \in Footprint(k) :
        <<c[1] + o[1], c[2] + o[2]>> \in DOMAIN mask /\ mask[<<c[1] + o[1], c[2] + o[2]>>]])

BinaryErosion(mask, k) ==
    Eager([c \in DOMAIN mask |-> \A o \in Footprint(k) :
        <<c[1] + o[1], c[2] + o[2]>> \in DOMAIN mask => mask[<<c[1] + o[1], c[2] + o[2]>>]])

BinaryDilation(mask, k) ==
    Eager([c \in DOMAIN mask |-> \E o \in Footprint(k) :
        <<c[1] - o[1], c[2] - o[2]>> \in DOMAIN mask /\ mask[<<c[1] - o[1], c[2] - o[2]>>]])

BinaryOpening(mask, k) == BinaryDilation(BinaryErosion(mask, k), k)

BinaryClosing(mask, k) == BinaryErosion(BinaryDilation(mask, k), k)

\* part, and the cells of mask that touch part by an edge (connectivity 1)
Spread(part, mask) ==
    Eager([c \in DOMAIN mask |->
        mask[c] /\ \E p \in DOMAIN mask :
                      part[p] /\ Abs(c[1] - p[1]) + Abs(c[2] - p[2]) <= 1])

\* the connected component of mask that holds part, reached in at most n rounds
RECURSIVE Component(_, _, _)
Component(part, mask, n) ==
    IF n = 0 THEN part ELSE Component(Spread(part, mask), mask, n - 1)

\* the number of cells of the component of mask that holds cell c
ComponentSize(c, mask) ==
    Cardinality({d \in DOMAIN mask :
        Component([p \in DOMAIN mask |-> p = c], mask, Cardinality(DOMAIN mask))[d]})

\* remove_small_objects(mask, min_size): components of fewer than min_size
\* cells are dropped
RemoveSmallObjects(mask, min_size) ==
    Eager([c \in DOMAIN mask |-> mask[c] /\ ComponentSize(c, mask) >= min_size])

\* morph_clean with perform_opening and perform_closing left at True
MorphClean(detection_map, min_size, structure_size) ==
    AsUint8(RemoveSmallObjects(
                BinaryClosing(BinaryOpening(AsBool(detection_map), structure_size),
                              structure_size),
                min_size),
            detection_map)

\* the binary maps of MaskRows x MaskCols cells
Masks == [0..(MaskRows - 1) -> [0..(MaskCols - 1) -> {0, 1}]]

\* clean = morph_clean(m); again = morph_clean(clean)
CallMorphClean ==
    /\ dsp.calls = 0
    /\ dsp' = [dsp EXCEPT !.calls = 1,
                          !.clean = MorphClean(dsp.detection_map, dsp.min_size,
                                               dsp.structure_size)]
    /\ UNCHANGED beside_dsp

CallMorphCleanAgain ==
    /\ dsp.calls = 1
    /\ dsp' = [dsp EXCEPT !.calls = 2,
                          !.again = MorphClean(dsp.clean, dsp.min_size,
                                               dsp.structure_size)]
    /\ UNCHANGED beside_dsp

InitMorph ==
    /\ TrackingParked
    /\ cfar = NoCfar
    /\ server = None
    /\ reader = None
    /\ source = None
    /\ disk = None
    /\ \E m \in Masks : \E min_size \in 0..MaxMinSize : \E structure_size \in 1..MaxStructure :
          dsp = [fn |-> "morph_clean", detection_map |-> m, min_size |-> min_size,
                 structure_size |-> structure_size, calls |-> 0,
                 clean |-> <<>>, again |-> <<>>]

NextMorph == CallMorphClean \/ CallMorphCleanAgain

SpecMorph == InitMorph /\ [][NextMorph]_vars

\* C16: cleaning a cleaned map changes nothing, for every map, min_size and
\* structure_size.
C16_Idempotent == dsp.calls = 2 => dsp.again = dsp.clean

\* a map that the first cleaning changed to a map that is not empty
C16_Witness ==
    /\ dsp.calls = 2
    /\ dsp.structure_size > 1
    /\ dsp.clean # dsp.detection_map
    /\ \E c \in Cells(dsp.clean) : dsp.clean[c[1]][c[2]] = 1
    /\ \E c \in Cells(dsp.clean) : dsp.clean[c[1]][c[2]] = 0

(***************************************************************************)
(* cluster_dbscan (src/src/clustering.py).  DBSCAN is sklearn's: a point   *)
(* is a core point when at least min_samples points (itself included) lie  *)
(* within eps of it, clusters are grown from the core points in index      *)
(* order and numbered from 0, a point no cluster reaches is labelled -1.   *)
(* eps is a rational, or Inf.  No sklearn version is pinned: releases from *)
(* 1.2 on validate eps against the open interval (0, inf), older ones only *)
(* require eps > 0.                                                        *)
(***************************************************************************)
MaxPoints == 3
MaxY == 1
MaxX == 2

Inf == <<1, 0>>

\* the parameter check of DBSCAN.fit in the installed release
EpsAccepted(eps, release) ==
    /\ eps[1] > 0
    /\ release = "from 1.2" => eps # Inf

\* points i and j lie within eps of each other
Within(points, i, j, eps) ==
    \/ eps = Inf
    \/ ((points[i][1] - points[j][1]) * (points[i][1] - points[j][1])
        + (points[i][2] - points[j][2]) * (points[i][2] - points[j][2])) * eps[2] * eps[2]
           <= eps[1] * eps[1]

\* the core samples
Core(points, eps, min_samples) ==
    {i \in DOMAIN points :
        Cardinality({j \in DOMAIN points : Within(points, i, j, eps)}) >= min_samples}

\* members, and the points within eps of a core point among them
Expand(members, points, eps, core) ==
    Eager([i \in DOMAIN points |->
        members[i] \/ \E j \in core : members[j] /\ Within(points, i, j, eps)])

\* the cluster grown from the members, in at most n rounds
RECURSIVE Cluster(_, _, _, _, _)
Cluster(members, points, eps, core, n) ==
    IF n = 0 THEN members
    ELSE Cluster(Expand(members, points, eps, core), points, eps, core, n - 1)

\* the clusters, each as the table of its members, under its lowest core point
Clusters(points, eps, core) ==
    Eager([s \in core |->
        Cluster([i \in DOMAIN points |-> i = s], points, eps, core, Len(points))])

\* labels_ of DBSCAN: the rank of the first cluster to reach the point
Labels(points, core, clusters) ==
    LET seeds == {s \in core : \A t \in core : t < s => ~clusters[t][s]}
    IN  [i \in DOMAIN points |->
            IF \E s \in seeds : clusters[s][i]
            THEN Cardinality({t \in seeds :
                     t < (CHOOSE s \in seeds :
                             clusters[s][i] /\ \A u \in seeds : clusters[u][i] => s <= u)})
            ELSE -1]

\* cluster_dbscan(points, eps, min_samples) under a release of sklearn
ClusterDbscan(points, eps, min_samples, release) ==
    IF Len(points) = 0 THEN [outcome |-> "returned", out |-> <<>>]
    ELSE IF ~EpsAccepted(eps, release)
         THEN [outcome |-> "InvalidParameterError", out |-> <<>>]
    ELSE [outcome |-> "returned",
          out |-> Labels(points, Core(points, eps, min_samples),
                         Clusters(points, eps, Core(points, eps, min_samples)))]

\* the lists of at most MaxPoints distinct points (y, x)
PointLists ==
    {ps \in UNION {[1..n -> (0..MaxY) \X (0..MaxX)] : n \in 0..MaxPoints} :
        \A i, j \in DOMAIN ps : i # j => ps[i] # ps[j]}

CallClusterDbscan ==
    /\ dsp.outcome = "none"
    /\ DspCommit(ClusterDbscan(dsp.points, dsp.eps, dsp.min_samples, dsp.release))
    /\ UNCHANGED beside_dsp

InitCluster ==
    /\ TrackingParked
    /\ cfar = NoCfar
    /\ server = None
    /\ reader = None
    /\ source = None
    /\ disk = None
    /\ \E points \in PointLists : \E eps \in {R1, Inf} : \E min_samples \in 1..2 :
       \E release \in {"before 1.2", "from 1.2"} :
          dsp = [fn |-> "cluster_dbscan", points |-> points, eps |-> eps,
                 min_samples |-> min_samples, release |-> release,
                 outcome |-> "none", out |-> <<>>]

NextCluster == CallClusterDbscan

SpecCluster == InitCluster /\ [][NextCluster]_vars

\* C17: with min_samples = 1 and eps = infinity a non-empty point set gets
\* one label >= 0 for all its points, and an empty one an empty labelling,
\* in both cases without an error.
C17_OneCluster ==
    dsp.outcome # "none" /\ dsp.min_samples = 1 /\ dsp.eps = Inf =>
        /\ dsp.outcome = "returned"
        /\ Len(dsp.out) = Len(dsp.points)
        /\ \A i, j \in DOMAIN dsp.out : dsp.out[i] = dsp.out[j] /\ dsp.out[i] >= 0

(***************************************************************************)
(* CAFProcessor (src/passive_radar/caf/caf.py).  Signals are real-valued   *)
(* and transforms have 1 or 2 points, where the discrete Fourier transform *)
(* is exact in the rationals: X0 = x0 + x1, X1 = x0 - x1, real, so that    *)
(* np.conj leaves it as it is and np.abs is the absolute value.  The       *)
(* 1e-12 of the source is scaled to 1 / TinyInv.                           *)
(***************************************************************************)
MaxSignal == 2
MaxChannels == 2
TinyInv == 1000

Min2(a, b) == IF a < b THEN a ELSE b

\* a signal of integers as an array of floats
AsFloats(x) == Eager([k \in DOMAIN x |-> RInt(x[k])])

\* np.fft.fft of 1 or 2 points
Dft(x) == IF Len(x) = 2 THEN <<RAdd(x[1], x[2]), RSub(x[1], x[2])>> ELSE x

\* np.fft.ifft of 1 or 2 points
Idft(X) ==
    IF Len(X) = 2
    THEN <<RDiv(RAdd(X[1], X[2]), RInt(2)), RDiv(RSub(X[1], X[2]), RInt(2))>>
    ELSE X

\* the input of np.fft.fft(x, n): x cropped or zero-padded to n points
Resize(x, n) == Eager([k \in 1..n |-> IF k <= Len(x) THEN x[k] ELSE R0])

\* np.fft.fftshift of 1 or 2 points
FftShift(X) == IF Len(X) = 2 THEN <<X[2], X[1]>> ELSE X

\* np.abs, element by element
AbsAll(x) == Eager([k \in DOMAIN x |-> RAbs(x[k])])

\* surv_fft * ref_conj
Times(a, b) == Eager([k \in DOMAIN a |-> RMul(a[k], b[k])])

\* one row of caf_map: lines 109-116 for the segment seg_surv
CafRow(seg_surv, ref_conj, doppler_bins) ==
    AbsAll(FftShift(Dft(Resize(AbsAll(Idft(Times(Dft(seg_surv), ref_conj))),
                               doppler_bins))))

\* seg_len = int(self.nfft * (1 - self.overlap)), overlap a rational in [0, 1)
SegLen(nfft, overlap) == (nfft * (overlap[2] - overlap[1])) \div overlap[2]

\* caf_map before its normalisation, for signals of one length n
CafMap(ref, surv, nfft, seg_len, doppler_bins) ==
    Eager([i \in 1..(IF (Len(ref) - nfft) \div seg_len + 1 > 1
                     THEN (Len(ref) - nfft) \div seg_len + 1 ELSE 1) |->
        IF (i - 1) * seg_len + nfft <= Len(surv)
        THEN CafRow(SubSeq(surv, (i - 1) * seg_len + 1, (i - 1) * seg_len + nfft),
                    Dft(SubSeq(ref, 1, nfft)), doppler_bins)
        ELSE Eager([k \in 1..doppler_bins |-> R0])])

\* the largest of a non-empty set of rationals
RMax(S) == CHOOSE x \in S : \A y \in S : RLe(y, x)

\* variant: the map is divided by its smallest shifted entry
DividedByMin(caf_map, tiny) ==
    LET peak == CHOOSE x \in {RAdd(caf_map[i][k], tiny) :
                                 i \in DOMAIN caf_map, k \in DOMAIN caf_map[1]} :
                    \A y \in {RAdd(caf_map[i][k], tiny) :
                                 i \in DOMAIN caf_map, k \in DOMAIN caf_map[1]} : RLe(x, y)
    IN  Eager([i \in DOMAIN caf_map |->
            Eager([k \in DOMAIN caf_map[i] |-> RDiv(caf_map[i][k], peak)])])

\* caf_map / np.max(caf_map + 1e-12)
DividedByMax(caf_map, tiny) ==
    LET peak == RMax({RAdd(caf_map[i][k], tiny) :
                         i \in DOMAIN caf_map, k \in DOMAIN caf_map[1]})
    IN  Eager([i \in DOMAIN caf_map |->
            Eager([k \in DOMAIN caf_map[i] |-> RDiv(caf_map[i][k], peak)])])

\* CAFProcessor.compute_caf
ComputeCaf(ref, surv, nfft, overlap, doppler_bins) ==
    IF SegLen(nfft, overlap) = 0 THEN [outcome |-> "ZeroDivisionError", map |-> <<>>]
    ELSE [outcome |-> "returned",
          map |-> DividedByMax(
                      CafMap(AsFloats(SubSeq(ref, 1, Min2(Len(ref), Len(surv)))),
                             AsFloats(SubSeq(surv, 1, Min2(Len(ref), Len(surv)))),
                             nfft, SegLen(nfft, overlap), doppler_bins),
                      Rat(1, TinyInv))]

\* np.mean(maps, axis=0) for maps of one shape
MeanMap(maps) ==
    Eager([i \in DOMAIN maps[1] |-> Eager([k \in DOMAIN maps[1][i] |->
        RDiv(IF Len(maps) = 1 THEN maps[1][i][k] ELSE RAdd(maps[1][i][k], maps[2][i][k]),
             RInt(Len(maps)))])])

\* CAFProcessor.process_multi once every compute_caf has been evaluated
Averaged(results) ==
    IF \E c \in DOMAIN results : results[c].outcome # "returned"
    THEN [outcome |-> "ZeroDivisionError", maps |-> <<>>, out |-> <<>>]
    ELSE IF \E c \in DOMAIN results : Len(results[c].map) # Len(results[1].map)
    THEN [outcome |-> "ValueError",
          maps |-> Eager([c \in DOMAIN results |-> results[c].map]), out |-> <<>>]
    ELSE [outcome |-> "returned",
          maps |-> Eager([c \in DOMAIN results |-> results[c].map]),
          out |-> MeanMap(Eager([c \in DOMAIN results |-> results[c].map]))]

\* CAFProcessor.process_multi
ProcessMulti(refs, surfs, nfft, overlap, doppler_bins) ==
    Averaged(Eager([c \in DOMAIN refs |->
        ComputeCaf(refs[c], surfs[c], nfft, overlap, doppler_bins)]))

\* the real signals of 1..MaxSignal samples 0 or 1
Signals == UNION {[1..n -> {0, 1}] : n \in 1..MaxSignal}

CafCommit(res) ==
    dsp' = [dsp EXCEPT !.outcome = res.outcome, !.maps = res.maps, !.out = res.out]

CallProcessMulti ==
    /\ dsp.outcome = "none"
    /\ CafCommit(ProcessMulti(dsp.refs, dsp.surfs, dsp.nfft, dsp.overlap, dsp.doppler_bins))
    /\ UNCHANGED beside_dsp

InitCaf ==
    /\ TrackingParked
    /\ cfar = NoCfar
    /\ server = None
    /\ reader = None
    /\ source = None
    /\ disk = None
    /\ \E channels \in 1..MaxChannels :
       \E refs \in [1..channels -> Signals], surfs \in [1..channels -> Signals] :
       \E nfft \in 1..2, doppler_bins \in 1..2, overlap \in {R0, Rat(1, 2)} :
          dsp = [fn |-> "process_multi", refs |-> refs, surfs |-> surfs, nfft |-> nfft,
                 overlap |-> overlap, doppler_bins |-> doppler_bins,
                 outcome |-> "none", maps |-> <<>>, out |-> <<>>]

NextCaf == CallProcessMulti

SpecCaf == InitCaf /\ [][NextCaf]_vars

\* every value of a map lies in [0, 1]
InUnitRange(map) ==
    \A i \in DOMAIN map : \A k \in DOMAIN map[i] : RLe(R0, map[i][k]) /\ RLe(map[i][k], R1)

\* C18: every map compute_caf returns and every averaged map process_multi
\* returns has all its values >= 0 and <= 1, also for an all-zero signal
\* and for a signal shorter than nfft.
C18_MapInUnitRange ==
    /\ \A c \in DOMAIN dsp.maps : InUnitRange(dsp.maps[c])
    /\ dsp.outcome = "returned" => InUnitRange(dsp.out)

\* two channels, one of them shorter than nfft, and an averaged map that is
\* not zero everywhere
C18_Witness ==
    /\ dsp.outcome = "returned"
    /\ Len(dsp.refs) = 2
    /\ \E c \in DOMAIN dsp.surfs : Len(dsp.surfs[c]) < dsp.nfft
    /\ \E i \in DOMAIN dsp.out : \E k \in DOMAIN dsp.out[i] : dsp.out[i][k] # R0

\* C27: a map compute_caf returns has doppler_bins entries along its first
\* axis, and the maps of one configuration all have one shape, whatever the
\* number of segments their signals were cut into
C27_ShapeStable ==
    \A c \in DOMAIN dsp.maps :
        /\ Len(dsp.maps[c]) = dsp.doppler_bins
        /\ \A d \in DOMAIN dsp.maps :
              /\ Len(dsp.maps[c]) = Len(dsp.maps[d])
              /\ Len(dsp.maps[c][1]) = Len(dsp.maps[d][1])

\* what the shape is: segments along the first axis, doppler_bins along the second
SegmentsByDopplerBins ==
    \A c \in DOMAIN dsp.maps :
        /\ Len(dsp.maps[c][1]) = dsp.doppler_bins
        /\ Len(dsp.maps[c]) =
              (LET n == Min2(Len(dsp.refs[c]), Len(dsp.surfs[c]))
                   s == (n - dsp.nfft) \div SegLen(dsp.nfft, dsp.overlap) + 1
               IN  IF s > 1 THEN s ELSE 1)

(***************************************************************************)
(* saver (src/passive_radar/output/saver.py).  disk is one output          *)
(* directory: the files under events/ and patches/, each path with its     *)
(* content, and manifest.json (None while it does not exist).  uuid4 draws *)
(* an id that was never drawn before.  disk.saved is the history of the    *)
(* save_event calls, in call order: the id each one used and its event.    *)
(***************************************************************************)
MaxSaves == 3
MaxEventRange == 1

\* an id is a tuple: the caller's string, or uuid4 and its draw
EventIds == {<<"a">>, <<"b">>}
Formats == {"npy", "png", "jpg"}

Uuid4(drawn) == <<"uuid4", drawn + 1>>

\* open(path, "w") and a dump of content
WriteFile(files, path, content) ==
    {f \in files : f.path # path} \cup {[path |-> path, content |-> content]}

\* load_manifest: the events of manifest.json, none when it is missing
LoadManifest(manifest) == IF manifest = None THEN <<>> ELSE manifest

\* the id save_event uses
UsedId(d, event_id) == IF event_id = None THEN Uuid4(d.drawn) ELSE event_id

\* save_event(base_dir, event, event_id)
SaveEvent(d, event, event_id) ==
    [d EXCEPT
        !.files = WriteFile(d.files, <<"events", UsedId(d, event_id)>>, event),
        !.manifest = Append(LoadManifest(d.manifest),
                            [id |-> UsedId(d, event_id),
                             file |-> <<"events", UsedId(d, event_id)>>,
                             range |-> event.range,
                             patch |-> None]),
        !.drawn = IF event_id = None THEN d.drawn + 1 ELSE d.drawn,
        !.saved = Append(d.saved, [id |-> UsedId(d, event_id), event |-> event]),
        !.calls = d.calls + 1,
        !.outcome = "returned"]

\* the manifest loop of save_patch: the first entry of that id gets the patch
LinkPatch(events, event_id, path) ==
    [i \in DOMAIN events |->
        IF events[i].id = event_id /\ \A j \in 1..(i - 1) : events[j].id # event_id
        THEN [events[i] EXCEPT !.patch = path]
        ELSE events[i]]

\* save_patch(base_dir, event_id, patch, fmt)
SavePatch(d, event_id, patch, fmt) ==
    IF fmt \notin {"npy", "png"}
    THEN [d EXCEPT !.calls = d.calls + 1, !.outcome = "ValueError"]
    ELSE [d EXCEPT
            !.files = WriteFile(d.files, <<"patches", event_id, fmt>>, patch),
            !.manifest = LinkPatch(LoadManifest(d.manifest), event_id,
                                   <<"patches", event_id, fmt>>),
            !.calls = d.calls + 1,
            !.outcome = "returned"]

beside_disk == <<tracking, cfar, server, reader, source, dsp>>

\* save_event without an event_id
CallSaveEvent ==
    /\ disk.calls < MaxSaves
    /\ \E range \in 0..MaxEventRange :
          disk' = SaveEvent(disk, [range |-> range], None)
    /\ UNCHANGED beside_disk

\* save_event with the caller's event_id
CallSaveEventAs(event_id) ==
    /\ disk.calls < MaxSaves
    /\ \E range \in 0..MaxEventRange :
          disk' = SaveEvent(disk, [range |-> range], event_id)
    /\ UNCHANGED beside_disk

\* save_patch for a caller's id or an id save_event returned
CallSavePatch ==
    /\ disk.calls < MaxSaves
    /\ \E event_id \in EventIds \cup {disk.saved[i].id : i \in DOMAIN disk.saved} :
       \E fmt \in Formats :
          disk' = SavePatch(disk, event_id, [shape |-> <<1, 1>>], fmt)
    /\ UNCHANGED beside_disk

InitSaver ==
    /\ TrackingParked
    /\ cfar = NoCfar
    /\ server = None
    /\ reader = None
    /\ source = None
    /\ dsp = None
    /\ disk = [files |-> {}, manifest |-> None, drawn |-> 0, saved |-> <<>>,
               calls |-> 0, outcome |-> "none"]

NextSaver ==
    \/ CallSaveEvent
    \/ \E event_id \in EventIds : CallSaveEventAs(event_id)
    \/ CallSavePatch

SpecSaver == InitSaver /\ [][NextSaver]_vars

\* C20: manifest.json holds one entry per saved event, in call order, no
\* two entries share an id, each entry's file is the events/<id>.json that
\* was written for that event and still holds it, whatever event_id the
\* callers passed.
C20_ManifestAppendOnly ==
    disk.calls > 0 =>
        /\ Len(LoadManifest(disk.manifest)) = Len(disk.saved)
        /\ \A i \in DOMAIN disk.saved :
              /\ disk.manifest[i].id = disk.saved[i].id
              /\ disk.manifest[i].file = <<"events", disk.saved[i].id>>
              /\ [path |-> disk.manifest[i].file, content |-> disk.saved[i].event]
                    \in disk.files
        /\ \A i, j \in DOMAIN disk.saved :
              i # j => disk.manifest[i].id # disk.manifest[j].id

(***************************************************************************)
(* FusionServer (src/passive_radar/network/fusion_server.py) and           *)
(* fuse_tracks_lsq (fusion_utils.py).  server is the FusionServer object:  *)
(* received_data, and the body of the last GET /tracks response while no   *)
(* later request has come in.  A report is the JSON body of a POST /data:  *)
(* a dict with the key "tracks", each track with a position and an snr.    *)
(***************************************************************************)
MaxPosts == 3
MaxSnr == 2
MaxCoordinate == 1

\* the tracks a unit may post
PostedTracks ==
    {[id |-> 1, position |-> <<x, 0, 0>>, snr |-> s] :
        x \in 0..MaxCoordinate, s \in 1..MaxSnr}

\* the bodies of POST /data: no track, or one
Reports == {[tracks |-> <<>>]} \cup {[tracks |-> <<t>>] : t \in PostedTracks}

\* the tracks of all reports, in the order of the two loops
RECURSIVE AllTracks(_)
AllTracks(reports) ==
    IF reports = <<>> THEN <<>>
    ELSE reports[1].tracks \o AllTracks(Tail(reports))

\* np.sum over the tracks of f(track)
RECURSIVE SumOver(_, _)
SumOver(f(_), tracks) ==
    IF tracks = <<>> THEN 0 ELSE f(tracks[1]) + SumOver(f, Tail(tracks))

\* weights.sum()
WeightSum(tracks) == LET Snr(t) == t.snr IN SumOver(Snr, tracks)

\* component k of np.sum(positions * w[:, None], axis=0), w = weights / weights.sum()
FusedCoordinate(tracks, k) ==
    LET Weighted(t) == t.position[k] * t.snr
    IN  Rat(SumOver(Weighted, tracks), WeightSum(tracks))

\* fuse_tracks_lsq(reports)
FuseTracksLsq(reports) ==
    IF reports = <<>> THEN <<>>
    ELSE IF Len(AllTracks(reports)) < 2 THEN reports
    ELSE << [id |-> "fused_1",
             position |-> <<FusedCoordinate(AllTracks(reports), 1),
                            FusedCoordinate(AllTracks(reports), 2),
                            FusedCoordinate(AllTracks(reports), 3)>>,
             confidence |-> Rat(WeightSum(AllTracks(reports)),
                                Len(AllTracks(reports)))] >>

\* FusionServer.__init__
FusionServer == [received_data |-> <<>>, answered |-> FALSE, response |-> <<>>]

\* FusionServer.handle_post
HandlePost(data) ==
    /\ Len(server.received_data) < MaxPosts
    /\ server' = [server EXCEPT !.received_data = Append(@, data),
                                !.answered = FALSE, !.response = <<>>]
    /\ UNCHANGED beside_server

\* FusionServer.handle_get
HandleGet ==
    /\ server' = [server EXCEPT !.answered = TRUE,
                                !.response = FuseTracksLsq(server.received_data)]
    /\ UNCHANGED beside_server

InitFusion ==
    /\ TrackingParked
    /\ cfar = NoCfar
    /\ reader = None
    /\ source = None
    /\ dsp = None
    /\ disk = None
    /\ server = FusionServer

NextFusion ==
    \/ \E data \in Reports : HandlePost(data)
    \/ HandleGet

SpecFusion == InitFusion /\ [][NextFusion]_vars

\* C21: the body of a GET /tracks response is a list of fused-target
\* records with the keys id, position and confidence, whatever the number of
\* track positions received so far, zero and one included, and never the
\* list of the posted reports.
C21_FusedRecords ==
    server.answered =>
        \A i \in DOMAIN server.response :
            DOMAIN server.response[i] = {"id", "position", "confidence"}

\* a GET after reports with two or more positions
FusedFromTwo ==
    server.answered /\ Len(AllTracks(server.received_data)) >= 2 =>
        /\ Len(server.response) = 1
        /\ DOMAIN server.response[1] = {"id", "position", "confidence"}

(***************************************************************************)
(* The window of cfar_2d.                                                  *)
(***************************************************************************)
WindowRows == 2 * MarginD + 1
WindowCols == 2 * MarginR + 1

\* the loops of the call visit a cell
SomeCellVisited ==
    \E i \in DOMAIN cfar.rdmap : \E j \in DOMAIN cfar.rdmap[i] :
        Visited(cfar.rdmap, cfar.guard_cells, cfar.ref_cells, i, j)

\* C23: for guards >= 0 and training >= 1 the window cells left out of the
\* noise sum are exactly the (2Gd+1) x (2Gr+1) block around the cell under
\* test, that cell included, so that as many cells enter the sum as the
\* divisor window.size - (2Gd+1)(2Gr+1) counts.
C23_GuardBlockExcluded ==
    (/\ cfar.outcome = "returned" /\ SomeCellVisited
     /\ cfar.ref_cells[1] >= 1 /\ cfar.ref_cells[2] >= 1) =>
        /\ \A a \in 0..(WindowRows - 1), b \in 0..(WindowCols - 1) :
              GuardSlice(cfar.ref_cells, WindowRows, WindowCols, a, b)
                 <=> (/\ MarginD - cfar.guard_cells[1] <= a
                      /\ a <= MarginD + cfar.guard_cells[1]
                      /\ MarginR - cfar.guard_cells[2] <= b
                      /\ b <= MarginR + cfar.guard_cells[2])
        /\ Cardinality({c \in (0..(WindowRows - 1)) \X (0..(WindowCols - 1)) :
                  ~GuardSlice(cfar.ref_cells, WindowRows, WindowCols, c[1], c[2])})
              = NoiseDivisor(cfar.guard_cells, WindowRows * WindowCols)

\* C24: the K of alpha is the number of training cells of the window, the
\* count the noise sum is divided by.
C24_AlphaCountsTraining ==
    cfar.outcome = "returned" /\ SomeCellVisited =>
        AlphaK(cfar.ref_cells) = NoiseDivisor(cfar.guard_cells, WindowRows * WindowCols)

(***************************************************************************)
(* The ingest side of RealtimeRadarServer.run (realtime_server.py:141-178). *)
(* The reader object is a KrakenUDPReader, a class the repository's files  *)
(* do not hold; it is modelled as the Ingestor of spec.md sections 4.1 and *)
(* 5: a thread that writes every received block into the next slot of a   *)
(* ring of depth D, over the oldest slot when the ring is full, and a      *)
(* stream() that hands out the newest block once one is there that was not *)
(* handed out before.  Blocks are numbered 1, 2, ... in the order of their *)
(* arrival; a slot holds a block number (0: never written) and whether the *)
(* block was handed out.  server is the loop of run().                     *)
(***************************************************************************)
RingDepth == 2
MaxWritten == 6

EmptySlot == [block |-> 0, consumed |-> TRUE]

\* KrakenUDPReader after start()
KrakenUDPReader ==
    [ring |-> [s \in 0..(RingDepth - 1) |-> EmptySlot], write_index |-> 0, dropped |-> 0]

\* the loop of run() before its first block; processed lists the blocks
\* _process_chunk has been called with
RunLoop == [pc |-> "next", iq |-> 0, newest |-> 0, processed |-> <<>>]

\* variant: a full ring refuses the arriving block
WriteSlotKeepOldest(r) ==
    IF r.ring[r.write_index % RingDepth].block # 0
          /\ ~r.ring[r.write_index % RingDepth].consumed
    THEN [r EXCEPT !.dropped = @ + 1]
    ELSE [r EXCEPT
            !.ring[r.write_index % RingDepth] =
                [block |-> r.write_index + 1, consumed |-> FALSE],
            !.write_index = @ + 1]

\* the Ingestor writes the arriving block into slot write_index mod D and
\* counts the block it overwrites when that one was never handed out
WriteSlot(r) ==
    [r EXCEPT
        !.ring[r.write_index % RingDepth] =
            [block |-> r.write_index + 1, consumed |-> FALSE],
        !.write_index = @ + 1,
        !.dropped = IF r.ring[r.write_index % RingDepth].consumed THEN @ ELSE @ + 1]

\* the slot stream() hands out next: the one written last
NewestSlot(r) == (r.write_index - 1) % RingDepth

\* the producer delivers a block; MaxWritten blocks arrive in all
IngestorWrite ==
    /\ reader.write_index < MaxWritten
    /\ reader' = WriteSlot(reader)
    /\ UNCHANGED <<tracking, cfar, server, source, dsp, disk>>

\* line 150: iq = next(self.reader.stream()); waits while no block is new
RunNext ==
    /\ server.pc = "next"
    /\ reader.write_index > 0
    /\ ~reader.ring[NewestSlot(reader)].consumed
    /\ server' = [server EXCEPT !.pc = "process",
                                !.iq = reader.ring[NewestSlot(reader)].block,
                                !.newest = reader.write_index]
    /\ reader' = [reader EXCEPT !.ring[NewestSlot(reader)].consumed = TRUE]
    /\ UNCHANGED <<tracking, cfar, source, dsp, disk>>

\* lines 151-172: the block is processed and its frame broadcast
RunProcess ==
    /\ server.pc = "process"
    /\ server' = [server EXCEPT !.pc = "next",
                                !.processed = Append(@, server.iq)]
    /\ UNCHANGED <<tracking, cfar, reader, source, dsp, disk>>

InitIngest ==
    /\ TrackingParked
    /\ cfar = NoCfar
    /\ source = None
    /\ dsp = None
    /\ disk = None
    /\ reader = KrakenUDPReader
    /\ server = RunLoop

NextIngest ==
    \/ IngestorWrite
    \/ RunNext
    \/ RunProcess

SpecIngest == InitIngest /\ [][NextIngest]_vars

\* the blocks handed out to run()
HandedOut ==
    {server.processed[k] : k \in DOMAIN server.processed}
        \cup (IF server.pc = "process" THEN {server.iq} ELSE {})

MaxChunks == 2
ChunkDoppler == 3

\* extract_detections(det_map, rdmap, threshold): (i, j, power) of the cells
\* np.argwhere(det_map == 1) lists, row by row, with power > threshold
ExtractDetections(det_map, rdmap, threshold) ==
    LET nr == Cardinality(DOMAIN rdmap[0])
        hits == {i * nr + j : i \in DOMAIN rdmap, j \in 0..(nr - 1)}
                   \cap {c \in 0..(Cardinality(DOMAIN rdmap) * nr - 1) :
                            /\ det_map[c \div nr][c % nr] = 1
                            /\ rdmap[c \div nr][c % nr] > threshold}
        order == SortedIds(hits)
    IN  Eager([k \in 1..Len(order) |->
            <<order[k] \div nr, order[k] % nr, rdmap[order[k] \div nr][order[k] % nr]>>])

\* line 123: [(float(r), float(d), float(p)) for d, r, p in dets]
DetectionsForTracker(dets) ==
    Eager([k \in 1..Len(dets) |-> <<dets[k][2], dets[k][1], dets[k][3]>>])

\* the loop of run() before the first frame
ChunkLoop == [pc |-> "next", frame |-> 0, sent |-> 0]

\* lines 150-151: a chunk is read and _process_chunk runs cfar_2d,
\* extract_detections and self.tracker.update on its RD map
ProcessChunk ==
    /\ server.pc = "next"
    /\ server.frame < MaxChunks
    /\ outcome # "LinAlgError"
    /\ \E rd \in RdMaps(ChunkDoppler, MaxRange) :
          LET res == Cfar2d(rd, cfar.guard_cells, cfar.ref_cells, cfar.base)
          IN  /\ cfar' = [cfar EXCEPT !.rdmap = rd, !.outcome = res.outcome,
                                      !.det_map = res.det_map, !.thr_map = res.thr_map]
              /\ Commit(TrackerUpdate(tracker,
                     DetectionsForTracker(ExtractDetections(res.det_map, rd, 0)),
                     <<epoch + calls + 1>>, epoch + calls + 1, scipy_tie))
    /\ calls' = calls + 1
    /\ server' = [server EXCEPT !.pc = "broadcast", !.frame = @ + 1]
    /\ UNCHANGED <<cells, scipy_tie, epoch, twin, stamps, reader, source, dsp, disk>>

\* lines 154-172: the payload of the frame is built and broadcast
BroadcastChunk ==
    /\ server.pc = "broadcast"
    /\ server' = [server EXCEPT !.pc = "next", !.sent = server.frame]
    /\ UNCHANGED <<tracking, cfar, reader, source, dsp, disk>>

InitChunk ==
    /\ TrackingParked
    /\ cfar = [NoCfar EXCEPT !.guard_cells = <<0, 0>>, !.ref_cells = <<1, 1>>,
                             !.base = 2]
    /\ reader = None
    /\ source = None
    /\ dsp = None
    /\ disk = None
    /\ server = ChunkLoop

NextChunk ==
    \/ ProcessChunk
    \/ BroadcastChunk

SpecChunk == InitChunk /\ [][NextChunk]_vars

\* the points (y, x) of a binary map, as extract_points lists them
ExtractPoints(map) ==
    LET nr == Cardinality(DOMAIN map[0])
        order == SortedIds({c \in 0..(Cardinality(DOMAIN map) * nr - 1) :
                               map[c \div nr][c % nr] > 0})
    IN  Eager([k \in 1..Len(order) |-> <<order[k] \div nr, order[k] % nr>>])

\* the number of clusters DBSCAN finds, with the defaults of cluster_dbscan,
\* in the map morph_clean makes, with its defaults, of the frame's CFAR mask
ClustersOfFrame ==
    LET labels == ClusterDbscan(ExtractPoints(MorphClean(cfar.det_map, 5, 3)),
                                RInt(3), 3, "before 1.2").out
    IN  Cardinality({labels[k] : k \in DOMAIN labels} \ {-1})

\* C26: the measurements Tracker.update gets for a frame are the centroids
\* of the clusters that CFAR, then morphological cleanup, then DBSCAN find
\* in the frame's RD map, one per cluster; the frame is broadcast after its
\* tracker update and before the next frame is read.
C26_ClusteredMeasurements ==
    /\ server.frame > 0 /\ cfar.outcome = "returned" =>
          Len(call.detections) = ClustersOfFrame
    /\ server.pc = "broadcast" => calls = server.frame /\ server.sent = server.frame - 1
    /\ server.pc = "next" => server.sent = server.frame

\* the second part alone
BroadcastInOrder ==
    /\ server.pc = "broadcast" => calls = server.frame /\ server.sent = server.frame - 1
    /\ server.pc = "next" => server.sent = server.frame

(***************************************************************************)
(* mti_filter on a 2-D array (filters.py:39-41): an IQ block of shape      *)
(* (C, N) is the sequence of its C rows, each a sequence of N samples.     *)
(***************************************************************************)
\* a - b of two rows of one length
RowSub(a, b) == [n \in 1..Len(a) |-> a[n] - b[n]]

\* the 2-D branch of mti_filter: the slices run over the first axis
MtiFilter2d(data, delay) ==
    LET zeros == [c \in 1..Len(data) |-> [n \in 1..Len(data[1]) |-> 0]]
        upper == PySlice(data, delay, Len(data))
        lower == PySlice(data, 0, 0 - delay)
        shape == Broadcast(Len(upper), Len(lower))
        diff == IF shape = None THEN None
                ELSE <<[c \in 1..shape[1] |->
                          RowSub(upper[IF Len(upper) = 1 THEN 1 ELSE c],
                                 lower[IF Len(lower) = 1 THEN 1 ELSE c])]>>
        out == IF diff = None THEN None ELSE SliceAssign(zeros, delay, diff[1])
    IN  IF out = None THEN [outcome |-> "ValueError", out |-> <<>>]
        ELSE [outcome |-> "returned", out |-> out[1]]

\* the IQ blocks of shape (C, N) over 0..MaxValue
Blocks(C, N) == [1..C -> [1..N -> 0..MaxValue]]

CallMtiFilter2d ==
    /\ dsp.outcome = "none"
    /\ DspCommit(MtiFilter2d(dsp.data, dsp.delay))
    /\ UNCHANGED beside_dsp

InitMtiBlock ==
    /\ TrackingParked
    /\ cfar = NoCfar
    /\ server = None
    /\ reader = None
    /\ source = None
    /\ disk = None
    /\ \E C \in 1..MaxChannels, N \in 1..MaxN :
       \E data \in Blocks(C, N) : \E delay \in 1..MaxDelay :
          dsp = [fn |-> "mti_filter", data |-> data, delay |-> delay,
                 outcome |-> "none", out |-> <<>>]

NextMtiBlock == CallMtiFilter2d

SpecMtiBlock == InitMtiBlock /\ [][NextMtiBlock]_vars

\* C28: for a block x of shape (C, N) and a delay D >= 1 the call returns a
\* (C, N) block with out[c, n] = x[c, n] - x[c, n-D] for n >= D and 0 for
\* n < D: every channel is filtered along its own samples.
C28_PerChannel ==
    dsp.outcome # "none" =>
        /\ dsp.outcome = "returned"
        /\ Len(dsp.out) = Len(dsp.data)
        /\ \A c \in DOMAIN dsp.data :
              /\ Len(dsp.out[c]) = Len(dsp.data[c])
              /\ \A n \in 0..(Len(dsp.data[c]) - 1) :
                    dsp.out[c][n + 1] = IF n >= dsp.delay
                                        THEN dsp.data[c][n + 1] - dsp.data[c][n - dsp.delay + 1]
                                        ELSE 0

\* what the 2-D branch computes: the difference of rows c and c-D
AcrossChannels ==
    dsp.outcome # "none" =>
        /\ dsp.outcome = "returned"
        /\ \A c \in DOMAIN dsp.data : \A n \in DOMAIN dsp.data[c] :
              dsp.out[c][n] = IF c - 1 >= dsp.delay
                              THEN dsp.data[c][n] - dsp.data[c - dsp.delay][n]
                              ELSE 0

=============================================================================
